---- MODULE Spec2Model ----
(***************************************************************************)
(* Streaming analysis orchestration pipeline of spot-a-fake:               *)
(* POST /api/analysis/[analysisId]/analyze and the helpers it drives.      *)
(* Confidences and probabilities are fixed-point numbers in millionths;    *)
(* a floating-point quotient is kept as an exact fraction [num, den], and  *)
(* den = 0 is the quotient 0/0, i.e. NaN.                                  *)
(***************************************************************************)
EXTENDS Integers, Sequences, FiniteSets, TLC

(***************************************************************************)
(* Bounds of the explored inputs.                                          *)
(***************************************************************************)
MaxDet == 2       \* detections in one detector response
MaxItems == 2     \* detected_items in one segmenter response
MaxDetails == 2   \* sub-regions analysed in one run
MaxReads == 3     \* reads in which the body of one scorer stream arrives

(***************************************************************************)
(* Program constants.                                                      *)
(***************************************************************************)
ConfidenceThreshold == 620000    \* detection.confidence >= 0.62
MinCoverage == 10              \* item.percentage > 1.0, in tenths of a percent
AuthenticThreshold == 850000     \* averageConfidence >= 0.85
SuspiciousThreshold == 700000    \* averageConfidence >= 0.70
HighConfidenceArea == 850000     \* d.confidence >= 0.85
LowConfidenceArea == 750000      \* d.confidence < 0.75
ManipulationThreshold == 500000  \* authentic_probability < 0.5
NeutralProbability == 500000     \* authentic_probability = 0.5
ProbabilityStep == 100000        \* 0.1 per net indicator word
MaxProbability == 950000         \* Math.min(0.95, ...)
MinProbability == 50000          \* Math.max(0.05, ...)

RunIds == {1, 2}
JobIds == {1, 2}

VARIABLES
  pc,               \* position of each run in POST
  request,          \* what each run's request carries and resolves to
  cancelled,        \* the consumer has cancelled the run's stream (client disconnect)
  answers,          \* the answer of the external services to the run's last traced call
  job,              \* analysisId of each run
  user,             \* the user the run's token resolved to
  response,         \* HTTP status of a non-streaming response, 200 once the stream is returned, 0 before
  events,           \* events enqueued on the run's stream, in order
  closed,           \* controller.close() has run
  yoloResults,      \* what callYOLOAPI returned to the run
  validDetections,  \* detections that passed the confidence filter
  i,                \* index of the detection loop (0-based)
  humanSegments,    \* what segmentHumanImage returned for detection i
  j,                \* index of the segment loop (0-based)
  analysisDetails,  \* the run-local list of analysed sub-regions
  k,                \* index of the persistence loop (0-based)
  imageUrl,         \* public URL of the image uploaded for detail k
  aiSummary,        \* result of generateAISummary
  analysis,         \* table analysis: job id -> row
  analysis_detail,  \* table analysis_detail: rows in insertion order
  storage           \* objects of bucket analysis-images, in upload order

runVars == <<pc, request, cancelled, answers, job, user, response, events, closed, yoloResults, validDetections, i,
             humanSegments, j, analysisDetails, k, imageUrl, aiSummary>>
dbVars == <<analysis, analysis_detail, storage>>
vars == <<runVars, dbVars>>

NaN == [num |-> 0, den |-> 0]
NoSummary == [overallResult |-> "none", confidence |-> NaN,
              summary |-> [assessment |-> "none", strong |-> <<>>, concern |-> <<>>, pct |-> -1],
              authenticityAssessment |-> "none"]
NoYolo == [detections |-> <<>>, error |-> "unset"]
NoAnswers == [of |-> "none"]
NoRequest == [header |-> "unset", tokenUser |-> "", rowFound |-> FALSE, role |-> ""]

(***************************************************************************)
(* Sequence helpers.                                                       *)
(***************************************************************************)
RECURSIVE SumConfidence(_)
SumConfidence(s) ==
  IF s = <<>> THEN 0 ELSE s[1].confidence + SumConfidence(Tail(s))

RECURSIVE SeqsUpTo(_, _)
SeqsUpTo(S, n) ==
  IF n = 0 THEN {<<>>}
  ELSE LET shorter == SeqsUpTo(S, n - 1)
       IN shorter \cup {Append(s, x) : s \in {t \in shorter : Len(t) = n - 1}, x \in S}

MapSeq(s, Op(_)) == [n \in 1..Len(s) |-> Op(s[n])]

(***************************************************************************)
(* Region Detector Client.                                                 *)
(***************************************************************************)
Box1 == <<10, 20, 110, 220>>

\* The detections of the detector's JSON that are explored: accepted and
\* rejected ones of both branches, and an accepted one whose "box" is missing
\* (null), which callYOLOAPI copies through unchecked.
Detection(confidence, type, boxPresent) ==
  [confidence |-> confidence, type |-> type, box |-> Box1, boxPresent |-> boxPresent]

Detections ==
  {Detection(ConfidenceThreshold, "person", TRUE),
   Detection(ConfidenceThreshold, "bag", TRUE),
   Detection(ConfidenceThreshold - 1, "bag", TRUE),
   Detection(ConfidenceThreshold, "bag", FALSE)}

\* What the detector service answers: a transport failure, a non-OK status,
\* a body with success = false, or a body with detections.
DetectorResponses ==
  [kind : {"transport", "http", "unsuccessful"}, detections : {<<>>}]
    \cup [kind : {"ok"}, detections : SeqsUpTo(Detections, MaxDet)]

callYOLOAPI(resp) ==
  IF resp.kind = "transport" THEN [detections |-> <<>>, error |-> "fetch failed"]
  ELSE IF resp.kind = "http" THEN [detections |-> <<>>, error |-> "YOLO API returned 500"]
  ELSE IF resp.kind = "unsuccessful" THEN [detections |-> <<>>, error |-> "YOLO API analysis failed"]
  ELSE [detections |-> resp.detections, error |-> ""]

\* the limit itself rejected
IsValidDetectionStrict(d) == d.confidence > ConfidenceThreshold

\* the limit one step too low
IsValidDetectionLoose(d) == d.confidence >= ConfidenceThreshold - 1

\* the accepted detections taken last first
FilterValidReversed(dets) ==
  LET kept == SelectSeq(dets, LAMBDA d : d.confidence >= ConfidenceThreshold)
  IN [n \in 1..Len(kept) |-> kept[Len(kept) + 1 - n]]

\* validDetections = yoloResults.detections.filter(d => d.confidence >= 0.62)
IsValidDetection(d) == d.confidence >= ConfidenceThreshold
FilterValid(dets) == SelectSeq(dets, IsValidDetection)

(***************************************************************************)
(* Cropper.                                                                *)
(***************************************************************************)
\* const [x1, y1, x2, y2] = box throws a TypeError when box is not iterable.
cropImageByBoxThrows(d) == ~d.boxPresent

\* the second corner taken for the size
BoxCoordinatesCorners(box) ==
  [x |-> box[1], y |-> box[2], width |-> box[3], height |-> box[4]]

BoxCoordinates(box) ==
  [x |-> box[1], y |-> box[2], width |-> box[3] - box[1], height |-> box[4] - box[2]]

\* The mock data URL "data:image/png;base64,cropped_segment_x1_y1_w_h_data...".
cropImageByBox(box) ==
  [kind |-> "crop", base64Part |-> TRUE, of |-> BoxCoordinates(box)]

(***************************************************************************)
(* Human Segmenter Client.                                                 *)
(***************************************************************************)
\* percentage in tenths of a percent: 40%, exactly 1%, 0.5%, and background.
SegmenterItems ==
  {[label_id |-> 4, percentage |-> 400],
   [label_id |-> 4, percentage |-> MinCoverage],
   [label_id |-> 4, percentage |-> 5],
   [label_id |-> 0, percentage |-> 400]}

\* What the segmenter service answers: a failure (transport or non-OK
\* status), a body with detected items and the combined mask, or a body
\* whose combined mask is missing.
SegmenterResponses ==
  [ok : {FALSE}, mask : {FALSE}, items : {<<>>}]
    \cup [ok : {TRUE}, mask : {TRUE}, items : SeqsUpTo(SegmenterItems, MaxItems)]
    \cup [ok : {TRUE}, mask : {FALSE}, items : SeqsUpTo(SegmenterItems, 1)]

\* item.label_id > 0 && item.percentage > 1.0
KeepItem(item) == item.label_id > 0 /\ item.percentage > MinCoverage

\* no segment at all when the service fails or keeps nothing
segmentHumanImageNoFallback(croppedHumanImage, originalBox, resp) ==
  LET kept == SelectSeq(resp.items, KeepItem)
  IN IF ~resp.ok THEN <<>>
     ELSE [n \in 1..Len(kept) |->
             [segment |-> [kind |-> "mask", base64Part |-> TRUE,
                           of |-> BoxCoordinates(originalBox)],
              coordinates |-> BoxCoordinates(originalBox)]]

\* the fallback sub-region returned twice when the service fails
segmentHumanImageTwoOnFailure(croppedHumanImage, originalBox, resp) ==
  LET fallback == [segment |-> croppedHumanImage,
                   coordinates |-> BoxCoordinates(originalBox)]
      kept == SelectSeq(resp.items, KeepItem)
  IN IF ~resp.ok THEN <<fallback, fallback>>
     ELSE IF Len(kept) = 0 \/ ~resp.mask THEN <<fallback>>
     ELSE [n \in 1..Len(kept) |->
             [segment |-> [kind |-> "mask", base64Part |-> TRUE,
                           of |-> BoxCoordinates(originalBox)],
              coordinates |-> BoxCoordinates(originalBox)]]

\* The catch returns the fallback when the request fails and when reading
\* combined_mask.mask_base64 of a kept item throws.
segmentHumanImage(croppedHumanImage, originalBox, resp) ==
  LET fallback == <<[segment |-> croppedHumanImage,
                     coordinates |-> BoxCoordinates(originalBox)]>>
      kept == SelectSeq(resp.items, KeepItem)
      segments == [n \in 1..Len(kept) |->
                    [segment |-> [kind |-> "mask", base64Part |-> TRUE,
                                  of |-> BoxCoordinates(originalBox)],
                     coordinates |-> BoxCoordinates(originalBox)]]
  IN IF ~resp.ok THEN fallback
     ELSE IF Len(kept) > 0 /\ ~resp.mask THEN fallback
     ELSE IF Len(segments) = 0 THEN fallback
     ELSE segments

(***************************************************************************)
(* Brand Identifier, Authenticity Scorer and Translator clients.           *)
(***************************************************************************)
\* result.confident || 0 and result.brand || null; "" stands for null.
analyzeLuxuryImage(resp) ==
  IF resp.ok THEN [confident |-> resp.confident, brand |-> resp.brand]
  ELSE [confident |-> 0, brand |-> ""]

PositiveWords == {"authentic", "genuine"}
NegativeWords == {"fake", "counterfeit"}

CountIn(text, words) == Cardinality({n \in 1..Len(text) : text[n] \in words})

\* The analysis text is the sequence of forwarded chunks, one word a chunk.
parseStreamingAnalysisResult(analysisText) ==
  LET positiveCount == CountIn(analysisText, PositiveWords)
      negativeCount == CountIn(analysisText, NegativeWords)
      up == NeutralProbability + (positiveCount - negativeCount) * ProbabilityStep
      down == NeutralProbability - (negativeCount - positiveCount) * ProbabilityStep
      p == IF positiveCount > negativeCount
             THEN (IF up < MaxProbability THEN up ELSE MaxProbability)
           ELSE IF negativeCount > positiveCount
             THEN (IF down > MinProbability THEN down ELSE MinProbability)
           ELSE NeutralProbability
  IN [authentic_probability |-> p,
      red_flags |-> CountIn(analysisText, NegativeWords),
      overall_assessment |-> analysisText]

\* The body of the scorer stream: one "data: <json>" event for each content
\* chunk and the closing "data: [DONE]", every event ended by a blank line.
\* A body is a sequence of pieces ("data: ", the JSON payload, named by its
\* delta content, and "\n"); a read boundary falls between two pieces.
RECURSIVE StreamBody(_)
StreamBody(chunks) ==
  IF chunks = <<>> THEN <<"data: ", "[DONE]", "\n", "\n">>
  ELSE <<"data: ", Head(chunks), "\n", "\n">> \o StreamBody(Tail(chunks))

\* The values reader.read() returns for a body cut after the pieces in cuts.
RECURSIVE StreamReads(_, _)
StreamReads(body, cuts) ==
  IF cuts = {} THEN <<body>>
  ELSE LET c == CHOOSE x \in cuts : \A y \in cuts : y <= x
       IN Append(StreamReads(SubSeq(body, 1, c), cuts \ {c}),
                 SubSeq(body, c + 1, Len(body)))

\* lines = buffer.split('\n'); buffer = lines.pop() || ''
RECURSIVE SplitLines(_, _, _)
SplitLines(buffer, line, lines) ==
  IF buffer = <<>> THEN [lines |-> lines, buffer |-> line]
  ELSE IF Head(buffer) = "\n" THEN SplitLines(Tail(buffer), <<>>, Append(lines, line))
  ELSE SplitLines(Tail(buffer), Append(line, Head(buffer)), lines)

\* The content of a line, "" when the line is not a data line, is [DONE],
\* does not parse, or has no content.
LineContent(line) ==
  IF Len(line) = 2 /\ line[1] = "data: " /\ line[2] # "[DONE]" THEN line[2] ELSE ""

ForwardedOf(lines) ==
  SelectSeq([n \in 1..Len(lines) |-> LineContent(lines[n])], LAMBDA c : c # "")

\* the incomplete line of a read is thrown away
RECURSIVE ReadLoopNoBuffer(_, _, _)
ReadLoopNoBuffer(reads, buffer, forwarded) ==
  IF reads = <<>> THEN forwarded
  ELSE LET split == SplitLines(Head(reads), <<>>, <<>>)
       IN ReadLoopNoBuffer(Tail(reads), <<>>, forwarded \o ForwardedOf(split.lines))

\* while (true) { read; buffer += decode(value); ... }: the contents for which
\* onProgress is called, in order.
RECURSIVE ReadLoop(_, _, _)
ReadLoop(reads, buffer, forwarded) ==
  IF reads = <<>> THEN forwarded
  ELSE LET split == SplitLines(buffer \o Head(reads), <<>>, <<>>)
       IN ReadLoop(Tail(reads), split.buffer, forwarded \o ForwardedOf(split.lines))

\* The chunks for which onProgress is called: if (content) skips empty ones.
ForwardedChunks(resp) ==
  ReadLoop(StreamReads(StreamBody(resp.chunks), resp.cuts), <<>>, <<>>)

\* authentic_probability 0 replaced by the neutral value when the stream fails
detectFakeGoodsStreamingNeutralOnFailure(resp) ==
  IF resp.ok THEN parseStreamingAnalysisResult(ForwardedChunks(resp))
  ELSE [authentic_probability |-> NeutralProbability,
        red_flags |-> 1,
        overall_assessment |-> <<"Streaming analysis failed">>]

\* resp.ok = FALSE: the request or a read of the stream failed, after the
\* chunks of resp.chunks had been read.
detectFakeGoodsStreaming(resp) ==
  IF resp.ok THEN parseStreamingAnalysisResult(ForwardedChunks(resp))
  ELSE [authentic_probability |-> 0,
        red_flags |-> 1,
        overall_assessment |-> <<"Streaming analysis failed">>]

translateText(text, ok) ==
  [original_text |-> text,
   translated_text |-> IF ok THEN <<"zh">> \o text ELSE <<"Translation failed">>]

(***************************************************************************)
(* Segment Analysis Unit.                                                  *)
(***************************************************************************)
\* Math.round(((confident + authentic_probability) / 2) * 10000) / 10000
RoundedMean(a, b) == ((a + b + 100) \div 200) * 100

ScorerChunks == {<<>>, <<"genuine">>, <<"fake">>, <<"genuine", "", "authentic">>}

\* The places where the body of a stream can be cut into at most MaxReads reads.
RECURSIVE CutsUpTo(_, _)
CutsUpTo(places, m) ==
  IF m = 0 THEN {{}}
  ELSE LET fewer == CutsUpTo(places, m - 1)
       IN fewer \cup {cuts \cup {x} : cuts \in fewer, x \in places}

ReadCuts(chunks) == CutsUpTo(1..(Len(StreamBody(chunks)) - 1), MaxReads - 1)

\* What the scorer service answers: the content chunks of its stream, the
\* reads in which the body arrives, and whether the request and every read
\* succeed.
ScorerResponses ==
  UNION {[ok : BOOLEAN, chunks : {chunks}, cuts : ReadCuts(chunks)] : chunks \in ScorerChunks}

\* The external answers one unit invocation consumes.
UnitInputsAll ==
  [luxury : [ok : {TRUE}, confident : {800000, 1000000}, brand : {"Gucci", ""}]
              \cup [ok : {FALSE}, confident : {0}, brand : {""}],
   convOk : BOOLEAN,
   scorer : ScorerResponses,
   translOk : BOOLEAN]

\* The answers explored inside a whole run: every call succeeds, or the
\* brand identifier and the image conversion fail.
UnitInputs ==
  {[luxury |-> [ok |-> TRUE, confident |-> 1000000, brand |-> "Gucci"],
    convOk |-> TRUE,
    scorer |-> [ok |-> TRUE, chunks |-> <<"genuine", "", "authentic">>, cuts |-> {2}],
    translOk |-> TRUE],
   [luxury |-> [ok |-> FALSE, confident |-> 0, brand |-> ""],
    convOk |-> FALSE,
    scorer |-> [ok |-> FALSE, chunks |-> <<>>, cuts |-> {}],
    translOk |-> TRUE]}

Step(name, message) == [step |-> name, message |-> message]

\* The (step, message) pairs handed to onProgress, in order.
UnitSteps(u) ==
  LET luxuryAnalysis == analyzeLuxuryImage(u.luxury)
      brandName == IF luxuryAnalysis.brand = "" THEN "Unknown Brand" ELSE luxuryAnalysis.brand
      forwarded == ForwardedChunks(u.scorer)
  IN <<Step("luxury_analysis", ""), Step("luxury_analysis_complete", ""),
       Step("image_conversion", "")>>
     \o (IF ~u.convOk THEN <<Step("error", "Analysis failed")>>
         ELSE <<Step("image_conversion_complete", ""), Step("fake_goods_analysis", brandName)>>
              \o [n \in 1..Len(forwarded) |-> Step("fake_goods_streaming", forwarded[n])]
              \o <<Step("fake_goods_analysis_complete", ""), Step("translation", ""),
                   Step("translation_complete", ""), Step("compilation", ""),
                   Step("compilation_complete", "")>>)

processImageAnalysisStreaming(u) ==
  LET luxuryAnalysis == analyzeLuxuryImage(u.luxury)
      brandName == IF luxuryAnalysis.brand = "" THEN "Unknown Brand" ELSE luxuryAnalysis.brand
      fakeGoodsAnalysis == detectFakeGoodsStreaming(u.scorer)
      translationResult == translateText(fakeGoodsAnalysis.overall_assessment, u.translOk)
  IN IF ~u.convOk
       THEN [ai_confidence |-> 0,
             error |-> TRUE,
             luxury_confidence |-> 0,
             brandName |-> "",
             authentic_probability |-> 0,
             red_flags |-> 1,
             overall_assessment |-> <<"Streaming analysis failed due to technical error">>,
             translated_text |-> <<"zh", "Analysis failed">>]
       ELSE [ai_confidence |-> RoundedMean(luxuryAnalysis.confident,
                                           fakeGoodsAnalysis.authentic_probability),
             error |-> FALSE,
             luxury_confidence |-> luxuryAnalysis.confident,
             brandName |-> brandName,
             authentic_probability |-> fakeGoodsAnalysis.authentic_probability,
             red_flags |-> fakeGoodsAnalysis.red_flags,
             overall_assessment |-> fakeGoodsAnalysis.overall_assessment,
             translated_text |-> translationResult.translated_text]

(***************************************************************************)
(* Aggregation.                                                            *)
(***************************************************************************)
\* the limit itself excluded
AtLeastStrict(q, threshold) == q.den > 0 /\ q.num > threshold * q.den

\* quotient >= threshold on floating-point numbers; false for NaN
AtLeast(q, threshold) == q.den > 0 /\ q.num >= threshold * q.den

\* (averageConfidence * 100).toFixed(1), in tenths of a percent; -1 is "NaN"
ToFixed1Percent(q) ==
  IF q.den = 0 THEN -1 ELSE (2 * q.num + 1000 * q.den) \div (2000 * q.den)

DetailType(d) == d.type

generateAISummary(details) ==
  LET averageConfidence == [num |-> SumConfidence(details), den |-> Len(details)]
      overallResult ==
        IF AtLeast(averageConfidence, AuthenticThreshold) THEN "authentic"
        ELSE IF AtLeast(averageConfidence, SuspiciousThreshold) THEN "suspicious"
        ELSE "likely_fake"
      highConfidenceAreas ==
        MapSeq(SelectSeq(details, LAMBDA d : d.confidence >= HighConfidenceArea), DetailType)
      lowConfidenceAreas ==
        MapSeq(SelectSeq(details, LAMBDA d : d.confidence < LowConfidenceArea), DetailType)
  IN [overallResult |-> overallResult,
      confidence |-> averageConfidence,
      summary |-> [assessment |-> overallResult,
                   strong |-> highConfidenceAreas,
                   concern |-> lowConfidenceAreas,
                   pct |-> ToFixed1Percent(averageConfidence)],
      authenticityAssessment |-> overallResult]

(***************************************************************************)
(* Tables and bucket.                                                      *)
(***************************************************************************)
Null == -1
NoText == NoSummary.summary

\* A number serialised into the JSON body of a write: NaN becomes null, and
\* the DECIMAL(5,4) column rounds to four decimals.
StoredDecimal(q) ==
  IF q.den = 0 THEN Null ELSE ((2 * q.num + 100 * q.den) \div (200 * q.den)) * 100

\* A number written to a DECIMAL(5,4) column: rounded to four decimals.
StoredNumber(c) == ((c + 50) \div 100) * 100

\* analysis.image_url is the public URL of the stored upload; it has no
\* "," so imageData.split(',')[1] is undefined for it.
SourceImage == [kind |-> "source", base64Part |-> FALSE,
                of |-> [x |-> 0, y |-> 0, width |-> 0, height |-> 0]]

(***************************************************************************)
(* Events of the stream.                                                   *)
(***************************************************************************)
Emit(r, evs) == events' = [events EXCEPT ![r] = @ \o evs]

StepEvents(steps, info) ==
  [n \in 1..Len(steps) |->
     [type |-> "ai_analysis_step", step |-> steps[n].step, message |-> steps[n].message,
      segmentInfo |-> info]]

\* part numbered from 0
HumanDetailTypeZeroBased(di, sj) == [kind |-> "human_segment", cls |-> "person", det |-> di + 1, part |-> sj]

\* `human_segment_${i + 1}_part_${j + 1}`
HumanDetailType(di, sj) == [kind |-> "human_segment", cls |-> "person", det |-> di + 1, part |-> sj + 1]
\* the detection's number left out of the type
ObjectDetailTypeUnnumbered(cls, di) == [kind |-> "detection", cls |-> cls, det |-> 0, part |-> 0]

\* `${detection.type}_detection_${i + 1}`
ObjectDetailType(cls, di) == [kind |-> "detection", cls |-> cls, det |-> di + 1, part |-> 0]
FullImageType == [kind |-> "full_image_analysis", cls |-> "", det |-> 0, part |-> 0]

MakeDetail(type, aiResult, imageData, segmentIndex, coordinates, fallbackMode) ==
  [type |-> type,
   confidence |-> aiResult.ai_confidence,
   imageData |-> imageData,
   metadata |-> [segmentIndex |-> segmentIndex,
                 coordinates |-> coordinates,
                 manipulationDetected |-> aiResult.authentic_probability < ManipulationThreshold,
                 hasError |-> aiResult.error,
                 aiAnalysisResult |-> aiResult,
                 fallbackMode |-> fallbackMode]]

(***************************************************************************)
(* POST: the state after construction and the pre-stream checks.           *)
(***************************************************************************)
InitTables ==
  /\ analysis = [a \in JobIds |->
                   [user_id |-> "owner", image_url |-> SourceImage,
                    ai_confidence |-> Null, ai_result_text |-> NoText]]
  /\ analysis_detail = <<>>
  /\ storage = <<>>

\* The runs in "started" are at startPc with the run-local list "details".
InitRuns(started, startPc, details) ==
  /\ pc = [r \in RunIds |-> IF r \in started THEN startPc ELSE "idle"]
  /\ request = [r \in RunIds |-> NoRequest]
  /\ cancelled = [r \in RunIds |-> FALSE]
  /\ answers = [r \in RunIds |-> NoAnswers]
  /\ job = [r \in RunIds |-> 1]
  /\ user = [r \in RunIds |-> ""]
  /\ response = [r \in RunIds |-> 0]
  /\ events = [r \in RunIds |-> <<>>]
  /\ closed = [r \in RunIds |-> FALSE]
  /\ yoloResults = [r \in RunIds |-> NoYolo]
  /\ validDetections = [r \in RunIds |-> <<>>]
  /\ i = [r \in RunIds |-> 0]
  /\ humanSegments = [r \in RunIds |-> <<>>]
  /\ j = [r \in RunIds |-> 0]
  /\ analysisDetails = [r \in RunIds |-> IF r \in started THEN details ELSE <<>>]
  /\ k = [r \in RunIds |-> 0]
  /\ imageUrl = [r \in RunIds |-> 0]
  /\ aiSummary = [r \in RunIds |-> NoSummary]

\* One request, received and not yet checked.
Init == InitTables /\ InitRuns({1}, "request", <<>>)

\* A request: the scheme of its Authorization header ("" when the header is
\* missing), the user auth.getUser resolves the token to ("" when it fails),
\* whether the select of the analysis row finds it, and the role of the
\* user's profile.
Req(header, tokenUser, rowFound, role) ==
  [header |-> header, tokenUser |-> tokenUser, rowFound |-> rowFound, role |-> role]

Requests ==
  {Req("", "", TRUE, "user"),
   Req("Basic", "owner", TRUE, "user"),
   Req("Bearer", "", TRUE, "user"),
   Req("Bearer", "owner", FALSE, "user"),
   Req("Bearer", "other", FALSE, "admin"),
   Req("Bearer", "other", FALSE, "user"),
   Req("Bearer", "other", TRUE, "user"),
   Req("Bearer", "owner", TRUE, "user"),
   Req("Bearer", "other", TRUE, "admin")}

\* the ownership is checked before the row is known to exist
PreStreamStatusOwnershipFirst(header, tokenUser, rowFound, owner, role) ==
  IF header # "Bearer" THEN 401
  ELSE IF tokenUser = "" THEN 401
  ELSE IF ~(owner = tokenUser) /\ ~(role = "admin") THEN 403
  ELSE IF ~rowFound THEN 404
  ELSE 200

\* The status the checks before the stream answer with; 200 opens the stream.
PreStreamStatus(header, tokenUser, rowFound, owner, role) ==
  IF header # "Bearer" THEN 401
  ELSE IF tokenUser = "" THEN 401
  ELSE IF ~rowFound THEN 404
  ELSE IF ~(owner = tokenUser) /\ ~(role = "admin") THEN 403
  ELSE 200

\* the loop over the details is left after its first iteration
PersistencePcFirstOnly(details, index) ==
  IF index < Len(details) /\ index = 0 THEN "upload" ELSE "summary"

\* The loop "for (i = 0; i < analysisDetails.length; i++)" is entered at
\* "upload" and left at "summary".
PersistencePc(details, index) == IF index < Len(details) THEN "upload" ELSE "summary"

\* The checks before the stream, for one of the requests in "requests".
RequestFrom(r, requests) ==
  /\ pc[r] = "request"
  /\ \E req \in requests :
       LET status == PreStreamStatus(req.header, req.tokenUser, req.rowFound,
                                     analysis[job[r]].user_id, req.role)
       IN /\ request' = [request EXCEPT ![r] = req]
          /\ response' = [response EXCEPT ![r] = status]
          /\ IF status = 200
               THEN /\ user' = [user EXCEPT ![r] = req.tokenUser]
                    /\ Emit(r, <<[type |-> "start", analysisId |-> job[r]],
                                 [type |-> "yolo_analysis"]>>)
                    /\ pc' = [pc EXCEPT ![r] = "yolo"]
               ELSE /\ pc' = [pc EXCEPT ![r] = "rejected"]
                    /\ UNCHANGED <<user, events>>
  /\ UNCHANGED <<answers, cancelled, job, closed, yoloResults, validDetections, i, humanSegments, j,
                 analysisDetails, k, imageUrl, aiSummary, dbVars>>

Request(r) == RequestFrom(r, Requests)

(***************************************************************************)
(* POST: the stream under a client disconnect.                             *)
(***************************************************************************)
\* events are still enqueued after the stream was cancelled
EnqueueNeverThrows(r) == FALSE

\* controller.enqueue throws a TypeError once the consumer has cancelled the
\* stream, and so does controller.close.
EnqueueThrows(r) == cancelled[r]

OuterErrorEvent ==
  [type |-> "error", message |-> "Analysis failed", detailType |-> FullImageType]

\* catch (error) and finally of start(): the handler enqueues its error event
\* and the stream is closed.  On a cancelled stream both calls throw, and an
\* exception thrown by enqueue inside the detection phase passes through
\* catch (yoloError), whose own enqueue throws again, before it gets here.
OuterCatch(r) ==
  /\ pc' = [pc EXCEPT ![r] = "failed"]
  /\ IF EnqueueThrows(r)
       THEN UNCHANGED <<events, closed>>
       ELSE /\ Emit(r, <<OuterErrorEvent>>)
            /\ closed' = [closed EXCEPT ![r] = TRUE]

(***************************************************************************)
(* POST: detection phase.                                                  *)
(***************************************************************************)
\* callYOLOAPI returns with one of the answers in "responses".
YoloReturnsFrom(r, responses) ==
  /\ pc[r] = "yolo"
  /\ \E resp \in responses :
       LET res == callYOLOAPI(resp)
           valid == FilterValid(res.detections)
       IN /\ Len(valid) <= MaxDetails
          /\ yoloResults' = [yoloResults EXCEPT ![r] = res]
          /\ IF res.error # "" \/ Len(valid) = 0
               THEN /\ pc' = [pc EXCEPT ![r] = PersistencePc(<<>>, 0)]
                    /\ UNCHANGED <<events, closed, validDetections>>
               ELSE /\ validDetections' = [validDetections EXCEPT ![r] = valid]
                    /\ IF EnqueueThrows(r)
                         THEN OuterCatch(r)
                         ELSE /\ Emit(r, <<[type |-> "detections_found",
                                            detectionCount |-> Len(valid),
                                            detectionTypes |->
                                              [n \in 1..Len(valid) |-> valid[n].type]]>>)
                              /\ pc' = [pc EXCEPT ![r] = "detection"]
                              /\ UNCHANGED closed
  /\ analysisDetails' = [analysisDetails EXCEPT ![r] = <<>>]
  /\ UNCHANGED <<answers, request, cancelled, job, user, response, i, humanSegments, j, k, imageUrl,
                 aiSummary, dbVars>>

YoloReturns(r) == YoloReturnsFrom(r, DetectorResponses)

ProcessingEvent(r) ==
  LET detection == validDetections[r][i[r] + 1]
  IN [type |-> "processing_detection", detectionType |-> detection.type,
      confidence |-> detection.confidence, progress |-> i[r] + 1,
      total |-> Len(validDetections[r])]

CatchEvents == <<[type |-> "yolo_error"], [type |-> "fallback_analysis"]>>

\* One iteration of the detection loop up to its first external call.
ProcessDetection(r) ==
  /\ pc[r] = "detection"
  /\ LET detection == validDetections[r][i[r] + 1]
     IN IF EnqueueThrows(r)
          THEN OuterCatch(r)
          ELSE /\ IF cropImageByBoxThrows(detection)
                    THEN /\ Emit(r, <<ProcessingEvent(r)>> \o CatchEvents)
                         /\ pc' = [pc EXCEPT ![r] = "fallback"]
                    ELSE /\ Emit(r, <<ProcessingEvent(r)>>)
                         /\ pc' = [pc EXCEPT ![r] =
                                     IF detection.type = "person" THEN "segment" ELSE "object"]
               /\ UNCHANGED closed
  /\ UNCHANGED <<answers, request, cancelled, job, user, response, yoloResults, validDetections, i, humanSegments,
                 j, analysisDetails, k, imageUrl, aiSummary, dbVars>>

\* Where the detection loop goes after detection i is finished.
AfterDetection(r, details) ==
  IF i[r] + 1 < Len(validDetections[r]) THEN "detection" ELSE PersistencePc(details, 0)

SegmenterAnswers(r, resp) ==
  /\ pc[r] = "segment"
  /\ LET detection == validDetections[r][i[r] + 1]
         segments == segmentHumanImage(cropImageByBox(detection.box), detection.box, resp)
     IN /\ humanSegments' = [humanSegments EXCEPT ![r] = segments]
        /\ IF Len(segments) > 0
             THEN /\ pc' = [pc EXCEPT ![r] = "part"]
                  /\ UNCHANGED i
             ELSE /\ pc' = [pc EXCEPT ![r] = AfterDetection(r, analysisDetails[r])]
                  /\ i' = [i EXCEPT ![r] = @ + 1]
  /\ j' = [j EXCEPT ![r] = 0]
  /\ UNCHANGED <<request, cancelled, job, user, response, events, closed, yoloResults,
                 validDetections, analysisDetails, k, imageUrl, aiSummary, dbVars>>

\* The segmenter answers inside a whole run: the details of the run stay
\* within MaxDetails.
SegmenterReturns(r) ==
  /\ pc[r] = "segment"
  /\ \E resp \in SegmenterResponses :
       LET detection == validDetections[r][i[r] + 1]
           segments == segmentHumanImage(cropImageByBox(detection.box), detection.box, resp)
       IN /\ Len(analysisDetails[r]) + Len(segments)
               + (Len(validDetections[r]) - (i[r] + 1)) <= MaxDetails
          /\ SegmenterAnswers(r, resp)
  /\ UNCHANGED answers

\* The Segment Analysis Unit returns for part j of human detection i.
AnalyzePart(r) ==
  /\ pc[r] = "part"
  /\ \E u \in UnitInputs :
       LET detection == validDetections[r][i[r] + 1]
           humanSegment == humanSegments[r][j[r] + 1]
           aiResult == processImageAnalysisStreaming(u)
           info == [detectionIndex |-> i[r], segmentIndex |-> j[r], detectionType |-> "human",
                    fallbackMode |-> FALSE]
           detail == MakeDetail(HumanDetailType(i[r], j[r]), aiResult, humanSegment.segment,
                                <<i[r], j[r]>>, humanSegment.coordinates, FALSE)
           details == Append(analysisDetails[r], detail)
       IN IF EnqueueThrows(r)
            THEN /\ OuterCatch(r)
                 /\ UNCHANGED <<analysisDetails, i, j>>
            ELSE /\ Emit(r, StepEvents(UnitSteps(u), info))
                 /\ analysisDetails' = [analysisDetails EXCEPT ![r] = details]
                 /\ IF j[r] + 1 < Len(humanSegments[r])
                      THEN /\ j' = [j EXCEPT ![r] = @ + 1]
                           /\ UNCHANGED <<i, pc>>
                      ELSE /\ j' = [j EXCEPT ![r] = @ + 1]
                           /\ i' = [i EXCEPT ![r] = @ + 1]
                           /\ pc' = [pc EXCEPT ![r] = AfterDetection(r, details)]
                 /\ UNCHANGED closed
  /\ UNCHANGED <<answers, request, cancelled, job, user, response, yoloResults, validDetections, humanSegments,
                 k, imageUrl, aiSummary, dbVars>>

\* The Segment Analysis Unit returns for the non-human detection i.
UnitAnswersObject(r, u) ==
  /\ pc[r] = "object"
  /\   LET detection == validDetections[r][i[r] + 1]
           aiResult == processImageAnalysisStreaming(u)
           info == [detectionIndex |-> i[r], segmentIndex |-> -1,
                    detectionType |-> detection.type, fallbackMode |-> FALSE]
           detail == MakeDetail(ObjectDetailType(detection.type, i[r]), aiResult,
                                cropImageByBox(detection.box), <<i[r]>>,
                                BoxCoordinates(detection.box), FALSE)
           details == Append(analysisDetails[r], detail)
       IN IF EnqueueThrows(r)
            THEN /\ OuterCatch(r)
                 /\ UNCHANGED <<analysisDetails, i>>
            ELSE /\ Emit(r, StepEvents(UnitSteps(u), info))
                 /\ analysisDetails' = [analysisDetails EXCEPT ![r] = details]
                 /\ i' = [i EXCEPT ![r] = @ + 1]
                 /\ pc' = [pc EXCEPT ![r] = AfterDetection(r, details)]
                 /\ UNCHANGED closed
  /\ UNCHANGED <<request, cancelled, job, user, response, yoloResults, validDetections, humanSegments,
                 j, k, imageUrl, aiSummary, dbVars>>

AnalyzeObject(r) ==
  /\ pc[r] = "object"
  /\ \E u \in UnitInputs : UnitAnswersObject(r, u)
  /\ UNCHANGED answers

\* the fallback detail added to the results already produced
FallbackAnalysisKeepsResults(r) ==
  /\ pc[r] = "fallback"
  /\ \E u \in UnitInputs :
       LET aiResult == processImageAnalysisStreaming(u)
           info == [detectionIndex |-> -1, segmentIndex |-> -1, detectionType |-> "",
                    fallbackMode |-> TRUE]
           detail == MakeDetail(FullImageType, aiResult, analysis[job[r]].image_url, <<0>>,
                                [x |-> 0, y |-> 0, width |-> 100, height |-> 100], TRUE)
       IN IF EnqueueThrows(r)
            THEN /\ OuterCatch(r)
                 /\ UNCHANGED analysisDetails
            ELSE /\ Emit(r, StepEvents(UnitSteps(u), info))
                 /\ analysisDetails' = [analysisDetails EXCEPT ![r] = Append(@, detail)]
                 /\ pc' = [pc EXCEPT ![r] = PersistencePc(Append(analysisDetails[r], detail), 0)]
                 /\ UNCHANGED closed
  /\ UNCHANGED <<answers, request, cancelled, job, user, response, yoloResults, validDetections, i, humanSegments,
                 j, k, imageUrl, aiSummary, dbVars>>

\* catch (yoloError): the Segment Analysis Unit returns for the whole image.
FallbackAnalysis(r) ==
  /\ pc[r] = "fallback"
  /\ \E u \in UnitInputs :
       LET aiResult == processImageAnalysisStreaming(u)
           info == [detectionIndex |-> -1, segmentIndex |-> -1, detectionType |-> "",
                    fallbackMode |-> TRUE]
           detail == MakeDetail(FullImageType, aiResult, analysis[job[r]].image_url, <<0>>,
                                [x |-> 0, y |-> 0, width |-> 100, height |-> 100], TRUE)
       IN IF EnqueueThrows(r)
            THEN /\ OuterCatch(r)
                 /\ UNCHANGED analysisDetails
            ELSE /\ Emit(r, StepEvents(UnitSteps(u), info))
                 /\ analysisDetails' = [analysisDetails EXCEPT ![r] = <<detail>>]
                 /\ pc' = [pc EXCEPT ![r] = PersistencePc(<<detail>>, 0)]
                 /\ UNCHANGED closed
  /\ UNCHANGED <<answers, request, cancelled, job, user, response, yoloResults, validDetections, i, humanSegments,
                 j, k, imageUrl, aiSummary, dbVars>>

(***************************************************************************)
(* POST: persistence phase.                                                *)
(***************************************************************************)
\* "continue", or the end of the loop body: the next detail or the summary.
NextDetail(r) ==
  /\ k' = [k EXCEPT ![r] = @ + 1]
  /\ pc' = [pc EXCEPT ![r] = PersistencePc(analysisDetails[r], k[r] + 1)]

\* error is the message of the exception: of the TypeError of Buffer.from, or
\* of the Error thrown for uploadError.
StorageErrorEvent(detail) ==
  [type |-> "error", message |-> "Failed to save image", detailType |-> detail.type,
   error |-> IF ~detail.imageData.base64Part THEN "TypeError" ELSE "Failed to upload image"]

InsertErrorEvent(detail) ==
  [type |-> "error", message |-> "Failed to save analysis", detailType |-> detail.type]

\* Buffer.from(detail.imageData.split(',')[1], 'base64') throws a TypeError
\* when the image reference has no "," in it.
Base64Throws(imageData) == ~imageData.base64Part

\* supabase.storage.upload returns for detail k (or was never reached).
Upload(r) ==
  /\ pc[r] = "upload"
  /\ LET detail == analysisDetails[r][k[r] + 1]
     IN \E uploadOk \in BOOLEAN :
          IF Base64Throws(detail.imageData) \/ ~uploadOk
            THEN /\ IF EnqueueThrows(r)
                      THEN OuterCatch(r) /\ UNCHANGED k
                      ELSE /\ Emit(r, <<StorageErrorEvent(detail)>>)
                           /\ NextDetail(r)
                           /\ UNCHANGED closed
                 /\ UNCHANGED <<imageUrl, storage>>
            ELSE /\ storage' = Append(storage, [analysisId |-> job[r],
                                                segmentIndex |-> detail.metadata.segmentIndex,
                                                image |-> detail.imageData])
                 /\ imageUrl' = [imageUrl EXCEPT ![r] = Len(storage) + 1]
                 /\ pc' = [pc EXCEPT ![r] = "insert"]
                 /\ UNCHANGED <<events, closed, k>>
  /\ UNCHANGED <<answers, request, cancelled, job, user, response, yoloResults, validDetections, i, humanSegments,
                 j, analysisDetails, aiSummary, analysis, analysis_detail>>

\* the position in the loop sent as the id
ProgressEventStepAsId(r, id) ==
  LET detail == analysisDetails[r][k[r] + 1]
  IN [type |-> "progress", step |-> k[r] + 1, total |-> Len(analysisDetails[r]),
      detail |-> [id |-> k[r] + 1, type |-> detail.type, confidence |-> detail.confidence,
                  segmentIndex |-> detail.metadata.segmentIndex,
                  coordinates |-> detail.metadata.coordinates,
                  manipulationDetected |-> detail.metadata.manipulationDetected]]

ProgressEvent(r, id) ==
  LET detail == analysisDetails[r][k[r] + 1]
  IN [type |-> "progress", step |-> k[r] + 1, total |-> Len(analysisDetails[r]),
      detail |-> [id |-> id, type |-> detail.type, confidence |-> detail.confidence,
                  segmentIndex |-> detail.metadata.segmentIndex,
                  coordinates |-> detail.metadata.coordinates,
                  manipulationDetected |-> detail.metadata.manipulationDetected]]

\* a row of the same job and type is replaced, its id kept
InsertRowReplacing(table, row) ==
  LET same(old) == old.analysis_id = row.analysis_id
                     /\ old.ai_result_text.type = row.ai_result_text.type
  IN IF \E n \in 1..Len(table) : same(table[n])
       THEN [n \in 1..Len(table) |->
               IF same(table[n]) THEN [row EXCEPT !.id = table[n].id] ELSE table[n]]
       ELSE Append(table, row)

\* .from('analysis_detail').insert({...}): a new row, whatever the table holds
InsertRow(table, row) == Append(table, row)

\* The insert into analysis_detail returns for detail k.
Insert(r) ==
  /\ pc[r] = "insert"
  /\ LET detail == analysisDetails[r][k[r] + 1]
         id == Len(analysis_detail) + 1
     IN \E insertOk \in BOOLEAN :
          /\ analysis_detail' =
               IF insertOk
                 THEN InsertRow(analysis_detail,
                                [id |-> id, analysis_id |-> job[r], user_id |-> user[r],
                                 image_url |-> imageUrl[r],
                                 ai_confidence |-> StoredNumber(detail.confidence),
                                 ai_result_text |-> [type |-> detail.type,
                                                     confidence |-> detail.confidence,
                                                     segmentInfo |-> detail.metadata]])
                 ELSE analysis_detail
          /\ IF EnqueueThrows(r)
               THEN OuterCatch(r) /\ UNCHANGED k
               ELSE /\ Emit(r, <<IF insertOk THEN ProgressEvent(r, id)
                                  ELSE InsertErrorEvent(detail)>>)
                    /\ NextDetail(r)
                    /\ UNCHANGED closed
  /\ UNCHANGED <<answers, request, cancelled, job, user, response, yoloResults, validDetections, i, humanSegments,
                 j, analysisDetails, imageUrl, aiSummary, analysis, storage>>

(***************************************************************************)
(* POST: summary and completion.                                           *)
(***************************************************************************)
\* summary_progress is sent and the 1500 ms timer is started.
SummaryProgress(r) ==
  /\ pc[r] = "summary"
  /\ IF EnqueueThrows(r)
       THEN OuterCatch(r)
       ELSE /\ Emit(r, <<[type |-> "summary_progress"]>>)
            /\ pc' = [pc EXCEPT ![r] = "timer"]
            /\ UNCHANGED closed
  /\ UNCHANGED <<answers, request, cancelled, job, user, response, yoloResults, validDetections, i, humanSegments,
                 j, analysisDetails, k, imageUrl, aiSummary, dbVars>>

\* The timer fires: the summary is computed and the update is issued.
Summarize(r) ==
  /\ pc[r] = "timer"
  /\ aiSummary' = [aiSummary EXCEPT ![r] = generateAISummary(analysisDetails[r])]
  /\ pc' = [pc EXCEPT ![r] = "update"]
  /\ UNCHANGED <<answers, request, cancelled, job, user, response, events, closed, yoloResults, validDetections, i,
                 humanSegments, j, analysisDetails, k, imageUrl, dbVars>>

UpdateErrorEvent ==
  [type |-> "error", message |-> "Failed to save analysis summary", detailType |-> FullImageType]

\* the persisted sub-regions counted instead of the analysed ones
CompletionEventCountsProgress(r) ==
  [type |-> "complete", analysisId |-> job[r],
   totalDetails |-> Cardinality({n \in 1..Len(events[r]) : events[r][n].type = "progress"})]

CompletionEvent(r) ==
  [type |-> "complete", analysisId |-> job[r], totalDetails |-> Len(analysisDetails[r])]

\* complete sent from inside the failure branch only
FinalEventsCompleteInBranch(r, updateOk) ==
  IF updateOk THEN <<[type |-> "summary_complete", summary |-> aiSummary[r]]>>
  ELSE <<UpdateErrorEvent, CompletionEvent(r)>>

\* nothing sent in the failure branch
FinalEventsSilentFailure(r, updateOk) ==
  IF updateOk THEN <<[type |-> "summary_complete", summary |-> aiSummary[r]], CompletionEvent(r)>>
  ELSE <<CompletionEvent(r)>>

\* What is sent once the update of the analysis row has returned.
FinalEvents(r, updateOk) ==
  <<IF updateOk THEN [type |-> "summary_complete", summary |-> aiSummary[r]]
    ELSE UpdateErrorEvent,
    CompletionEvent(r)>>

\* the summary text written without the confidence
AnalysisUpdateTextOnly(row, summary) ==
  [row EXCEPT !.ai_result_text = summary.summary]

\* ai_result_text left out of the update
AnalysisUpdateConfidenceOnly(row, summary) ==
  [row EXCEPT !.ai_confidence = StoredDecimal(summary.confidence)]

\* .update({ai_confidence: aiSummary.confidence, ai_result_text: aiSummary.summary})
AnalysisUpdate(row, summary) ==
  [row EXCEPT !.ai_confidence = StoredDecimal(summary.confidence),
              !.ai_result_text = summary.summary]

\* the update without its filter on the id
UpdatedAnalysisAllRows(r) ==
  [a \in JobIds |-> AnalysisUpdate(analysis[a], aiSummary[r])]

\* .from('analysis').update({...}).eq('id', analysisId)
UpdatedAnalysis(r) ==
  [analysis EXCEPT ![job[r]] = AnalysisUpdate(@, aiSummary[r])]

\* The update of the analysis row returns; the stream is completed and closed.
UpdateReturns(r) ==
  /\ pc[r] = "update"
  /\ \E updateOk \in BOOLEAN :
       /\ analysis' = IF updateOk THEN UpdatedAnalysis(r) ELSE analysis
       /\ IF EnqueueThrows(r)
            THEN OuterCatch(r)
            ELSE /\ Emit(r, FinalEvents(r, updateOk))
                 /\ closed' = [closed EXCEPT ![r] = TRUE]
                 /\ pc' = [pc EXCEPT ![r] = "done"]
  /\ UNCHANGED <<answers, request, cancelled, job, user, response, yoloResults, validDetections, i, humanSegments, j,
                 analysisDetails, k, imageUrl, aiSummary, analysis_detail, storage>>

(***************************************************************************)
(* Specifications.                                                         *)
(***************************************************************************)
Next ==
  \E r \in RunIds :
    \/ Request(r)
    \/ YoloReturns(r)
    \/ ProcessDetection(r)
    \/ SegmenterReturns(r)
    \/ AnalyzePart(r)
    \/ AnalyzeObject(r)
    \/ FallbackAnalysis(r)
    \/ Upload(r)
    \/ Insert(r)
    \/ SummaryProgress(r)
    \/ Summarize(r)
    \/ UpdateReturns(r)

Spec == Init /\ [][Next]_vars

(***************************************************************************)
(* generateAISummary on its own: the summary and completion steps of POST  *)
(* applied to lists of details with confidences around the class limits.   *)
(***************************************************************************)
MaxSummaryDetails == 2   \* details in one list handed to generateAISummary

BoundaryConfidences == {0, 699999, 700000, 849999, 850000, 1000000}

SummaryDetails ==
  {[type |-> ObjectDetailType("bag", 0), confidence |-> c] : c \in BoundaryConfidences}

SummaryInit ==
  /\ InitTables
  /\ \E details \in SeqsUpTo(SummaryDetails, MaxSummaryDetails) :
       InitRuns({1}, "summary", details)

SummaryNext ==
  \E r \in RunIds :
    \/ SummaryProgress(r)
    \/ Summarize(r)
    \/ UpdateReturns(r)

SpecSummary == SummaryInit /\ [][SummaryNext]_vars

\* Every external call returns and every timer fires.
FairSpec == Spec /\ WF_vars(Next)

(***************************************************************************)
(* A run whose client may disconnect while the stream is open.             *)
(***************************************************************************)
\* The client disconnects and the consumer cancels the stream.
Cancel(r) ==
  /\ response[r] = 200
  /\ pc[r] \notin {"done", "failed"}
  /\ ~cancelled[r]
  /\ cancelled' = [cancelled EXCEPT ![r] = TRUE]
  /\ UNCHANGED <<answers, pc, request, job, user, response, events, closed, yoloResults,
                 validDetections, i, humanSegments, j, analysisDetails, k, imageUrl,
                 aiSummary, dbVars>>

\* The segmentInfo of the ai_analysis_step events of the unit that is running.
UnitInfo(r) ==
  IF pc[r] = "part"
    THEN [detectionIndex |-> i[r], segmentIndex |-> j[r], detectionType |-> "human",
          fallbackMode |-> FALSE]
  ELSE IF pc[r] = "object"
    THEN [detectionIndex |-> i[r], segmentIndex |-> -1,
          detectionType |-> validDetections[r][i[r] + 1].type, fallbackMode |-> FALSE]
  ELSE [detectionIndex |-> -1, segmentIndex |-> -1, detectionType |-> "", fallbackMode |-> TRUE]

\* The client disconnects while a Segment Analysis Unit is running: the first
\* n steps were enqueued, the call in flight returns, and the next onProgress
\* throws, in the unit's try and again in its catch.
CancelDuringUnit(r) ==
  /\ pc[r] \in {"part", "object", "fallback"}
  /\ ~cancelled[r]
  /\ \E u \in UnitInputs :
       \E n \in 1..(Len(UnitSteps(u)) - 1) :
         Emit(r, SubSeq(StepEvents(UnitSteps(u), UnitInfo(r)), 1, n))
  /\ cancelled' = [cancelled EXCEPT ![r] = TRUE]
  /\ pc' = [pc EXCEPT ![r] = "failed"]
  /\ UNCHANGED <<answers, request, job, user, response, closed, yoloResults, validDetections, i,
                 humanSegments, j, analysisDetails, k, imageUrl, aiSummary, dbVars>>

NextCancel ==
  \/ Next
  \/ \E r \in RunIds : Cancel(r)
  \/ \E r \in RunIds : CancelDuringUnit(r)

SpecCancel == Init /\ [][NextCancel]_vars

(***************************************************************************)
(* Two requests.  The detector answers explored for them are a failure and *)
(* lists of accepted non-human detections, so that both runs go through    *)
(* the detection loop, the persistence loop and the summary.               *)
(***************************************************************************)
MaxPairDet == 1   \* detections in one detector response when two runs are explored

PairDetectorResponses ==
  [kind : {"transport"}, detections : {<<>>}]
    \cup [kind : {"ok"},
          detections : SeqsUpTo({Detection(ConfidenceThreshold, "bag", TRUE)}, MaxPairDet)]

YoloReturnsPair(r) == YoloReturnsFrom(r, PairDetectorResponses)

\* The owner's request and a request of a user who may not analyse the image.
PairRequests ==
  {Req("Bearer", "owner", TRUE, "user"), Req("Bearer", "other", TRUE, "user")}

RequestPair(r) == RequestFrom(r, PairRequests)

\* The steps of a run whose detections are all non-human and have a box.
PairRunNext(r) ==
  \/ RequestPair(r)
  \/ YoloReturnsPair(r)
  \/ ProcessDetection(r)
  \/ AnalyzeObject(r)
  \/ Upload(r)
  \/ Insert(r)
  \/ SummaryProgress(r)
  \/ Summarize(r)
  \/ UpdateReturns(r)

\* A request for job a is received for the run r.
Arrive(r, a) ==
  /\ pc[r] = "idle"
  /\ pc' = [pc EXCEPT ![r] = "request"]
  /\ job' = [job EXCEPT ![r] = a]
  /\ UNCHANGED <<answers, request, cancelled, user, response, events, closed, yoloResults,
                 validDetections, i, humanSegments, j, analysisDetails, k, imageUrl,
                 aiSummary, dbVars>>

\* A second request arrives at any moment, for the same job or for another.
ArriveAnyTime(r) == \E a \in JobIds : Arrive(r, a)

NextTwoRuns ==
  \E r \in RunIds :
    \/ PairRunNext(r)
    \/ ArriveAnyTime(r)

SpecTwoRuns == Init /\ [][NextTwoRuns]_vars

\* analyze is invoked again on the job of a run that has completed.
Reinvoke(r) ==
  \E q \in RunIds :
    /\ pc[q] = "done"
    /\ Arrive(r, job[q])

NextRerun ==
  \E r \in RunIds :
    \/ PairRunNext(r)
    \/ Reinvoke(r)

SpecRerun == Init /\ [][NextRerun]_vars

(***************************************************************************)
(* Reading the event stream.                                               *)
(***************************************************************************)
Positions(r, t) == {n \in 1..Len(events[r]) : events[r][n].type = t}
CountType(r, t) == Cardinality(Positions(r, t))
LastType(r) == events[r][Len(events[r])].type
StreamOpened(r) == response[r] = 200
DetectorFailed(r) == yoloResults[r].error \notin {"", "unset"}
DetectorSucceeded(r) == yoloResults[r].error = ""
Accepted(d) == d.confidence >= ConfidenceThreshold
AcceptedOf(r) == SelectSeq(yoloResults[r].detections, Accepted)

(***************************************************************************)
(* C1: every opened stream is eventually closed, and a closed stream ends  *)
(* with a complete or an error event, whatever external calls failed.      *)
(***************************************************************************)
\* A stream stays open or closed once it is, so "again and again every opened
\* stream is closed" says that each opened stream is eventually closed.
C1_StreamEndsWithTerminalEvent ==
  /\ [](\A r \in RunIds :
         closed[r] => (Len(events[r]) > 0 /\ LastType(r) \in {"complete", "error"}))
  /\ []<>(\A r \in RunIds : StreamOpened(r) => closed[r])

\* a run that closed after a failed persistence step
C1_Witness ==
  /\ closed[1]
  /\ \E n \in Positions(1, "error") : events[1][n].message = "Failed to save image"
  /\ LastType(1) = "complete"

(***************************************************************************)
(* C2: when callYOLOAPI returns an error marker, the run emits exactly one *)
(* yolo_error, later exactly one fallback_analysis, and then terminates.   *)
(***************************************************************************)
C2_DetectorErrorEntersFallback ==
  \A r \in RunIds :
    (closed[r] /\ DetectorFailed(r)) =>
      /\ CountType(r, "yolo_error") = 1
      /\ CountType(r, "fallback_analysis") = 1
      /\ \A p \in Positions(r, "yolo_error"), q \in Positions(r, "fallback_analysis") : p < q
      /\ LastType(r) \in {"complete", "error"}

(***************************************************************************)
(* C3: a detection below 0.62 is not counted in detections_found, is not   *)
(* in detectionTypes and gets no processing_detection event; a detection   *)
(* at or above 0.62 is counted and gets exactly one.                       *)
(***************************************************************************)
EventsOfType(r, t) == SelectSeq(events[r], LAMBDA e : e.type = t)

\* the m-th processing_detection event is about the m-th accepted detection
ProcessingMatches(r) ==
  LET acc == AcceptedOf(r)
      processing == EventsOfType(r, "processing_detection")
  IN /\ Len(processing) <= Len(acc)
     /\ \A m \in 1..Len(processing) :
          /\ processing[m].progress = m
          /\ processing[m].total = Len(acc)
          /\ processing[m].detectionType = acc[m].type
          /\ processing[m].confidence = acc[m].confidence

FoundMatches(r) ==
  LET acc == AcceptedOf(r)
  IN \A n \in Positions(r, "detections_found") :
       /\ events[r][n].detectionCount = Len(acc)
       /\ events[r][n].detectionTypes = [m \in 1..Len(acc) |-> acc[m].type]

\* the claim as written
C3_EveryAcceptedDetectionProcessed ==
  \A r \in RunIds :
    (closed[r] /\ DetectorSucceeded(r)) =>
      /\ FoundMatches(r)
      /\ ProcessingMatches(r)
      /\ Len(EventsOfType(r, "processing_detection")) = Len(AcceptedOf(r))

\* The accepted detections the loop reaches: all of them, or those up to
\* and including the first whose crop throws.
ReachedCount(acc) ==
  LET throwing == {m \in 1..Len(acc) : ~acc[m].boxPresent}
  IN IF throwing = {} THEN Len(acc)
     ELSE CHOOSE m \in throwing : \A n \in throwing : m <= n

\* C3 as amended: rejected detections are never counted or processed; an
\* accepted detection is counted, and gets exactly one processing_detection
\* event if the loop reaches it, i.e. unless the crop of an earlier accepted
\* detection threw and sent the run to the whole-image fallback.
C3_AcceptedDetectionsProcessedUntilThrow ==
  \A r \in RunIds :
    /\ DetectorSucceeded(r) => (FoundMatches(r) /\ ProcessingMatches(r))
    /\ (closed[r] /\ DetectorSucceeded(r)) =>
         /\ Len(EventsOfType(r, "processing_detection")) = ReachedCount(AcceptedOf(r))
         /\ (Len(AcceptedOf(r)) > 0 => CountType(r, "detections_found") = 1)

\* a closed run whose detector returned a rejected and then an accepted detection
C3_Witness ==
  /\ closed[1]
  /\ Len(yoloResults[1].detections) = 2
  /\ ~Accepted(yoloResults[1].detections[1])
  /\ Accepted(yoloResults[1].detections[2])
  /\ CountType(1, "processing_detection") = 1

(***************************************************************************)
(* C4: when the detector succeeds and no detection passes the filter, the  *)
(* run emits no progress event, creates no row, and still emits            *)
(* summary_progress, summary_complete and complete.                        *)
(***************************************************************************)
TypesOf(r) == [n \in 1..Len(events[r]) |-> events[r][n].type]
RowsOf(a) == SelectSeq(analysis_detail, LAMBDA row : row.analysis_id = a)
NoValidDetections(r) == DetectorSucceeded(r) /\ Len(AcceptedOf(r)) = 0

\* the claim as written
C4_NoDetectionsStillSummaryComplete ==
  \A r \in RunIds :
    (closed[r] /\ NoValidDetections(r)) =>
      /\ CountType(r, "progress") = 0
      /\ RowsOf(job[r]) = <<>>
      /\ TypesOf(r) = <<"start", "yolo_analysis", "summary_progress", "summary_complete",
                        "complete">>

\* C4 as amended: ... and still emits summary_progress, then
\* summary_complete (or, when the aggregate update fails, the error event
\* of that update), then complete.
C4_NoDetectionsStillSummarized ==
  \A r \in RunIds :
    (closed[r] /\ NoValidDetections(r)) =>
      /\ CountType(r, "progress") = 0
      /\ RowsOf(job[r]) = <<>>
      /\ \/ TypesOf(r) = <<"start", "yolo_analysis", "summary_progress", "summary_complete",
                           "complete">>
         \/ /\ TypesOf(r) = <<"start", "yolo_analysis", "summary_progress", "error",
                              "complete">>
            /\ events[r][4].message = "Failed to save analysis summary"

\* a closed run whose detector returned only a rejected detection
C4_Witness ==
  /\ closed[1]
  /\ NoValidDetections(1)
  /\ Len(yoloResults[1].detections) > 0
  /\ CountType(1, "summary_complete") = 1

(***************************************************************************)
(* C5: summary.confidence of summary_complete is the arithmetic mean of    *)
(* the confidences of exactly the progress events of the run; a sub-region *)
(* whose upload or insert failed does not contribute.                      *)
(***************************************************************************)
RECURSIVE SumProgress(_)
SumProgress(s) ==
  IF s = <<>> THEN 0 ELSE s[1].detail.confidence + SumProgress(Tail(s))

C5_SummaryIsMeanOfProgress ==
  \A r \in RunIds :
    \A n \in Positions(r, "summary_complete") :
      LET progress == EventsOfType(r, "progress")
          c == events[r][n].summary.confidence
      IN Len(progress) > 0 =>
           (c.den > 0 /\ c.num * Len(progress) = SumProgress(progress) * c.den)

(***************************************************************************)
(* C6: with zero details, the confidence of the summary written to the     *)
(* analysis row and carried in summary_complete is a number, not NaN.      *)
(***************************************************************************)
C6_EmptySummaryIsDefined ==
  \A r \in RunIds :
    (pc[r] \in {"update", "done"} /\ Len(analysisDetails[r]) = 0) =>
      /\ aiSummary[r].confidence.den # 0
      /\ \A n \in Positions(r, "summary_complete") :
           /\ events[r][n].summary.confidence.den # 0
           /\ analysis[job[r]].ai_confidence # Null

(***************************************************************************)
(* C7: overallResult is a function of the aggregate confidence c alone:    *)
(* c >= 0.85 authentic, 0.70 <= c < 0.85 suspicious, c < 0.70 likely_fake; *)
(* 0.85 authentic, 0.849999 suspicious, 0.70 suspicious, 0.699999          *)
(* likely_fake.                                                            *)
(***************************************************************************)
Summarized(r) == pc[r] \in {"update", "done"}

C7_OverallResultByBands ==
  \A r \in RunIds :
    Summarized(r) =>
      LET c == aiSummary[r].confidence
          result == aiSummary[r].overallResult
      IN c.den > 0 =>
           /\ (c.num >= 850000 * c.den) => result = "authentic"
           /\ (c.num >= 700000 * c.den /\ c.num < 850000 * c.den) => result = "suspicious"
           /\ (c.num < 700000 * c.den) => result = "likely_fake"
           /\ (c.den = 1 /\ c.num = 850000) => result = "authentic"
           /\ (c.den = 1 /\ c.num = 849999) => result = "suspicious"
           /\ (c.den = 1 /\ c.num = 700000) => result = "suspicious"
           /\ (c.den = 1 /\ c.num = 699999) => result = "likely_fake"

\* the summary of one detail of confidence 0.85
C7_Witness ==
  /\ pc[1] = "done"
  /\ aiSummary[1].confidence = [num |-> 850000, den |-> 1]
  /\ aiSummary[1].overallResult = "authentic"

(***************************************************************************)
(* C8: for every sub-region the order is processing_detection, then        *)
(* ai_analysis_step events, then its progress (or persistence error), all  *)
(* before any processing_detection or ai_analysis_step event of the next   *)
(* region or sub-region.                                                   *)
(***************************************************************************)
IsAnalysisEvent(e) == e.type \in {"processing_detection", "ai_analysis_step"}
IsPersistenceEvent(e) ==
  \/ e.type = "progress"
  \/ e.type = "error" /\ e.message \in {"Failed to save image", "Failed to save analysis"}

AnalysisPositions(r) == {n \in 1..Len(events[r]) : IsAnalysisEvent(events[r][n])}
PersistencePositions(r) == {n \in 1..Len(events[r]) : IsPersistenceEvent(events[r][n])}

\* The sub-region an event is about, as <<detection, part>> counted from 1;
\* part 0 is a whole detection, <<0, 0>> the whole image.
KeyOf(e) ==
  IF e.type = "processing_detection" THEN <<e.progress, 0>>
  ELSE IF e.type = "ai_analysis_step"
    THEN <<e.segmentInfo.detectionIndex + 1, e.segmentInfo.segmentIndex + 1>>
  ELSE IF e.type = "progress" THEN <<e.detail.type.det, e.detail.type.part>>
  ELSE <<e.detailType.det, e.detailType.part>>

Before(a, b) == a[1] < b[1] \/ (a[1] = b[1] /\ a[2] < b[2])
NoFallback(r) == CountType(r, "yolo_error") = 0

C9_FinalPairBeforeComplete ==
  \A r \in RunIds :
    \A n \in Positions(r, "complete") :
      /\ n >= 3
      /\ events[r][n - 2].type = "summary_progress"
      /\ \/ events[r][n - 1].type = "summary_complete"
         \/ /\ events[r][n - 1].type = "error"
            /\ events[r][n - 1].message = "Failed to save analysis summary"

\* a completed run whose aggregate update failed
C9_Witness ==
  /\ closed[1]
  /\ Len(events[1]) >= 3
  /\ events[1][Len(events[1]) - 1].type = "error"
  /\ LastType(1) = "complete"

(***************************************************************************)
(* C10: when complete is emitted the aggregate confidence and summary text *)
(* of this run are on the analysis row; a run whose aggregate update fails *)
(* does not emit complete.                                                 *)
(***************************************************************************)
AggregateWritten(r) ==
  /\ analysis[job[r]].ai_result_text = aiSummary[r].summary
  /\ analysis[job[r]].ai_confidence = StoredDecimal(aiSummary[r].confidence)

\* the claim as written
C10_CompleteImpliesAggregateWritten ==
  \A r \in RunIds : CountType(r, "complete") > 0 => AggregateWritten(r)

\* C10 as amended: whenever summary_complete is emitted, the aggregate of
\* this run is already on the analysis row; a run whose aggregate update
\* fails emits the error of that update instead of summary_complete, leaves
\* the row as it was, and still emits complete.
C10_SummaryCompleteImpliesAggregateWritten ==
  \A r \in RunIds :
    /\ CountType(r, "summary_complete") > 0 => AggregateWritten(r)
    /\ (CountType(r, "complete") > 0 /\ CountType(r, "summary_complete") = 0) =>
         /\ events[r][Len(events[r]) - 1] = UpdateErrorEvent
         /\ analysis[job[r]].ai_result_text = NoText
         /\ analysis[job[r]].ai_confidence = Null

\* a completed run that wrote the aggregate of at least one detail
C10_Witness ==
  /\ closed[1]
  /\ CountType(1, "summary_complete") = 1
  /\ Len(analysisDetails[1]) > 0
  /\ analysis[1].ai_confidence # Null

(***************************************************************************)
(* C11: a sub-region whose upload or insert fails gets exactly one error   *)
(* event and no progress event, the loop goes on with the next sub-region, *)
(* the run still emits summary_progress and complete, and the rows of the  *)
(* other sub-regions are as they would be without the failure.             *)
(***************************************************************************)
ProgressOf(r, type) ==
  {n \in Positions(r, "progress") : events[r][n].detail.type = type}

ErrorsOf(r, type, message) ==
  {n \in Positions(r, "error") :
     events[r][n].message = message /\ events[r][n].detailType = type}

RowsOfType(a, type) ==
  {n \in 1..Len(analysis_detail) :
     analysis_detail[n].analysis_id = a /\ analysis_detail[n].ai_result_text.type = type}

StoredFor(a, segmentIndex) ==
  {n \in 1..Len(storage) :
     storage[n].analysisId = a /\ storage[n].segmentIndex = segmentIndex}

RowsAppendOnly ==
  /\ Len(analysis_detail') >= Len(analysis_detail)
  /\ \A n \in 1..Len(analysis_detail) : analysis_detail'[n] = analysis_detail[n]

C11_PersistenceFailureIsIsolated ==
  /\ [](\A r \in RunIds :
          closed[r] =>
            /\ CountType(r, "summary_progress") = 1
            /\ CountType(r, "complete") = 1
            /\ \A n \in 1..Len(analysisDetails[r]) :
                 LET d == analysisDetails[r][n]
                     uploaded == StoredFor(job[r], d.metadata.segmentIndex) # {}
                     rows == RowsOfType(job[r], d.type)
                     progress == Cardinality(ProgressOf(r, d.type))
                     imageErrors == Cardinality(ErrorsOf(r, d.type, "Failed to save image"))
                     rowErrors == Cardinality(ErrorsOf(r, d.type, "Failed to save analysis"))
                 IN /\ ~uploaded => (imageErrors = 1 /\ rowErrors = 0 /\ progress = 0 /\ rows = {})
                    /\ (uploaded /\ rows = {}) =>
                         (imageErrors = 0 /\ rowErrors = 1 /\ progress = 0)
                    /\ rows # {} =>
                         /\ imageErrors = 0 /\ rowErrors = 0 /\ progress = 1
                         /\ Cardinality(rows) = 1
                         /\ \A m \in rows :
                              analysis_detail[m].ai_confidence = StoredNumber(d.confidence))
  /\ [][RowsAppendOnly]_vars

\* Two sub-regions: the first one failed, the second one was persisted.
C11_Witness ==
  /\ closed[1]
  /\ Len(analysisDetails[1]) = 2
  /\ RowsOfType(job[1], analysisDetails[1][1].type) = {}
  /\ Cardinality(ErrorsOf(1, analysisDetails[1][1].type, "Failed to save image")) = 1
  /\ Cardinality(ProgressOf(1, analysisDetails[1][2].type)) = 1
  /\ CountType(1, "complete") = 1

(***************************************************************************)
(* C12: at the end of a run, every analysed sub-region whose upload        *)
(* succeeded has exactly one row, every one whose upload failed has none,  *)
(* and the run created no other row.                                       *)
(***************************************************************************)
Uploaded(r, d) == StoredFor(job[r], d.metadata.segmentIndex) # {}

UploadedDetails(r) ==
  {n \in 1..Len(analysisDetails[r]) : Uploaded(r, analysisDetails[r][n])}

InsertFailed(r, d) == ErrorsOf(r, d.type, "Failed to save analysis") # {}

InsertedDetails(r) ==
  {n \in UploadedDetails(r) : ~InsertFailed(r, analysisDetails[r][n])}

C12_RowPerUploadedSubRegion ==
  \A r \in RunIds :
    closed[r] =>
      /\ Len(RowsOf(job[r])) = Cardinality(UploadedDetails(r))
      /\ \A n \in 1..Len(analysisDetails[r]) :
           LET d == analysisDetails[r][n]
           IN Cardinality(RowsOfType(job[r], d.type)) = IF Uploaded(r, d) THEN 1 ELSE 0

(***************************************************************************)
(* C12 as the code has it: the rows are those of the sub-regions whose     *)
(* upload and insert both succeeded; a sub-region whose upload or insert   *)
(* failed has no row.                                                      *)
(***************************************************************************)
C12_RowPerInsertedSubRegion ==
  \A r \in RunIds :
    closed[r] =>
      /\ Len(RowsOf(job[r])) = Cardinality(InsertedDetails(r))
      /\ \A n \in 1..Len(analysisDetails[r]) :
           LET d == analysisDetails[r][n]
           IN Cardinality(RowsOfType(job[r], d.type))
                = IF Uploaded(r, d) /\ ~InsertFailed(r, d) THEN 1 ELSE 0

\* Of two sub-regions one was uploaded and not inserted, the other has its row.
C12_Witness ==
  /\ closed[1]
  /\ Len(analysisDetails[1]) = 2
  /\ Cardinality(UploadedDetails(1)) = 2
  /\ Cardinality(InsertedDetails(1)) = 1
  /\ Len(RowsOf(job[1])) = 1

(***************************************************************************)
(* C13: the detail.id of every progress event is the id of exactly one     *)
(* row, inserted by the same run, whose stored confidence and coordinates  *)
(* are those of the event; the ids of a run's progress events are          *)
(* pairwise different.                                                     *)
(***************************************************************************)
RowsWithId(id) == {n \in 1..Len(analysis_detail) : analysis_detail[n].id = id}

C13_ProgressIdentifiesItsRow ==
  \A r \in RunIds :
    \A p \in Positions(r, "progress") :
      LET e == events[r][p]
      IN /\ Cardinality(RowsWithId(e.detail.id)) = 1
         /\ \A n \in RowsWithId(e.detail.id) :
              /\ analysis_detail[n].analysis_id = job[r]
              /\ analysis_detail[n].user_id = user[r]
              /\ analysis_detail[n].ai_confidence = e.detail.confidence
              /\ analysis_detail[n].ai_result_text.segmentInfo.coordinates = e.detail.coordinates
              /\ analysis_detail[n].ai_result_text.type = e.detail.type
         /\ \A q \in Positions(r, "progress") :
              q # p => events[r][q].detail.id # e.detail.id

\* A progress event for the second sub-region after the first was not persisted.
C13_Witness ==
  /\ CountType(1, "progress") = 1
  /\ CountType(1, "error") = 1
  /\ k[1] = 2
  /\ \E p \in Positions(1, "progress") :
       /\ events[1][p].step = 2
       /\ events[1][p].detail.confidence > 0
       /\ RowsWithId(events[1][p].detail.id) # {}

(***************************************************************************)
(* C14: when an exception reaches the outer handler of the run, the        *)
(* handler emits exactly one error event, the stream is closed, and        *)
(* ai_confidence and ai_result_text of the analysis row are what they were *)
(* before the run.                                                         *)
(***************************************************************************)
ReachedOuterHandler(r) == pc[r] = "failed"

OuterErrors(r) ==
  {n \in Positions(r, "error") : events[r][n].message = OuterErrorEvent.message}

AggregateUntouched(a) ==
  /\ analysis[a].ai_confidence = Null
  /\ analysis[a].ai_result_text = NoText

C14_OuterHandlerLeavesAggregate ==
  \A r \in RunIds :
    ReachedOuterHandler(r) =>
      /\ Cardinality(OuterErrors(r)) = 1
      /\ closed[r]
      /\ AggregateUntouched(job[r])

(***************************************************************************)
(* C15: in every state, also of two runs interleaved on one job, the pair  *)
(* (ai_confidence, ai_result_text) of an analysis row is the pair it had   *)
(* before any run or the pair one run computed, never a mix of two runs; a *)
(* run writes the pair at most once, and only after its loop over the      *)
(* sub-regions has ended.                                                  *)
(***************************************************************************)
AggregatePair(a) == <<analysis[a].ai_confidence, analysis[a].ai_result_text>>

PairOfRun(r) == <<StoredDecimal(aiSummary[r].confidence), aiSummary[r].summary>>

\* The step in which run r writes its aggregate.
WritesAggregate(r) ==
  /\ pc[r] = "update"
  /\ pc'[r] = "done"
  /\ k[r] = Len(analysisDetails[r])
  /\ analysis'[job[r]].ai_confidence = StoredDecimal(aiSummary[r].confidence)
  /\ analysis'[job[r]].ai_result_text = aiSummary[r].summary

C15_AggregatePairIsOneRuns ==
  /\ [](\A a \in JobIds :
          \/ AggregatePair(a) = <<Null, NoText>>
          \/ \E r \in RunIds :
               job[r] = a /\ pc[r] = "done" /\ AggregatePair(a) = PairOfRun(r))
  /\ [][\A a \in JobIds :
          analysis'[a] # analysis[a] => \E r \in RunIds : job[r] = a /\ WritesAggregate(r)]_vars
  /\ [][\A r \in RunIds : pc[r] = "done" => pc'[r] = "done"]_vars

\* Two runs on one job computed different summaries; the row holds the pair
\* of the run that arrived first, written after the other run's.
C15_Witness ==
  /\ job[1] = job[2]
  /\ pc[1] = "done" /\ pc[2] = "done"
  /\ CountType(1, "summary_complete") = 1
  /\ CountType(2, "summary_complete") = 1
  /\ PairOfRun(1)[1] # PairOfRun(2)[1]
  /\ PairOfRun(1)[2] # PairOfRun(2)[2]
  /\ AggregatePair(job[1]) = PairOfRun(1)

(***************************************************************************)
(* C16: for every accepted person detection the run emits at least one     *)
(* progress event for one of its sub-regions, whatever the segmenter       *)
(* returns.                                                                *)
(***************************************************************************)
PersonIndices(r) ==
  {n \in 1..Len(AcceptedOf(r)) : AcceptedOf(r)[n].type = "person"}

ProgressOfDetection(r, n) ==
  {p \in Positions(r, "progress") :
     events[r][p].detail.type.kind = "human_segment" /\ events[r][p].detail.type.det = n}

C16_PersonAlwaysHasProgress ==
  \A r \in RunIds :
    (closed[r] /\ DetectorSucceeded(r)) =>
      \A n \in PersonIndices(r) : ProgressOfDetection(r, n) # {}

(***************************************************************************)
(* C16 as the code has it: in a run that does not enter the whole-image    *)
(* fallback every accepted person detection has at least one analysed      *)
(* sub-region, whatever the segmenter returns, and each of its sub-regions *)
(* gets one progress event or, if its upload or insert failed, one error   *)
(* event instead; a run that enters the fallback emits no progress event   *)
(* for any detection.                                                      *)
(***************************************************************************)
SubRegionsOf(r, n) ==
  {m \in 1..Len(analysisDetails[r]) :
     analysisDetails[r][m].type.kind = "human_segment" /\ analysisDetails[r][m].type.det = n}

PersistenceErrorsOf(r, type) ==
  ErrorsOf(r, type, "Failed to save image") \cup ErrorsOf(r, type, "Failed to save analysis")

C16_PersonAlwaysHasSubRegion ==
  \A r \in RunIds :
    (closed[r] /\ DetectorSucceeded(r)) =>
      IF NoFallback(r)
        THEN \A n \in PersonIndices(r) :
               /\ SubRegionsOf(r, n) # {}
               /\ \A m \in SubRegionsOf(r, n) :
                    LET type == analysisDetails[r][m].type
                    IN Cardinality(ProgressOf(r, type))
                         + Cardinality(PersistenceErrorsOf(r, type)) = 1
               /\ Cardinality(ProgressOfDetection(r, n))
                    = Cardinality({m \in SubRegionsOf(r, n) :
                                     PersistenceErrorsOf(r, analysisDetails[r][m].type) = {}})
        ELSE \A n \in PersonIndices(r) : ProgressOfDetection(r, n) = {}

\* The segmenter gave no usable item: the cropped person is the one sub-region.
C16_Witness ==
  /\ closed[1]
  /\ NoFallback(1)
  /\ PersonIndices(1) = {1}
  /\ Len(humanSegments[1]) = 1
  /\ humanSegments[1][1].segment.kind = "crop"
  /\ Cardinality(ProgressOfDetection(1, 1)) = 1

(***************************************************************************)
(* C17: for an accepted detection that is not a person the segmenter is    *)
(* never called, exactly one sub-region is analysed, exactly one progress  *)
(* event is emitted for it, and its coordinates are x = x1, y = y1,        *)
(* width = x2 - x1, height = y2 - y1 of the detection box.                 *)
(***************************************************************************)
ObjectIndices(r) ==
  {n \in 1..Len(AcceptedOf(r)) : AcceptedOf(r)[n].type # "person"}

ObjectDetails(r, n) ==
  {m \in 1..Len(analysisDetails[r]) :
     analysisDetails[r][m].type.kind = "detection" /\ analysisDetails[r][m].type.det = n}

ObjectProgress(r, n) ==
  {p \in Positions(r, "progress") :
     events[r][p].detail.type.kind = "detection" /\ events[r][p].detail.type.det = n}

ExpectedCoordinates(d) ==
  [x |-> d.box[1], y |-> d.box[2], width |-> d.box[3] - d.box[1],
   height |-> d.box[4] - d.box[2]]

\* A call of the segmenter is pending only for a person.
SegmenterOnlyForPersons ==
  \A r \in RunIds : pc[r] = "segment" => validDetections[r][i[r] + 1].type = "person"

C17_ObjectHasOneProgress ==
  /\ SegmenterOnlyForPersons
  /\ \A r \in RunIds :
       (closed[r] /\ DetectorSucceeded(r)) =>
         \A n \in ObjectIndices(r) :
           /\ Cardinality(ObjectDetails(r, n)) = 1
           /\ Cardinality(ObjectProgress(r, n)) = 1
           /\ \A p \in ObjectProgress(r, n) :
                events[r][p].detail.coordinates = ExpectedCoordinates(AcceptedOf(r)[n])

(***************************************************************************)
(* C17 as the code has it: in a run that does not enter the whole-image    *)
(* fallback, an accepted detection that is not a person has exactly one    *)
(* analysed sub-region with the coordinates of its box, and that           *)
(* sub-region gets one progress event or, if its upload or insert failed,  *)
(* one error event; the segmenter is never called for it.  A run that      *)
(* enters the fallback emits no progress event for it.                     *)
(***************************************************************************)
C17_ObjectHasOneSubRegion ==
  /\ SegmenterOnlyForPersons
  /\ \A r \in RunIds :
       (closed[r] /\ DetectorSucceeded(r)) =>
         \A n \in ObjectIndices(r) :
           IF NoFallback(r)
             THEN /\ Cardinality(ObjectDetails(r, n)) = 1
                  /\ \A m \in ObjectDetails(r, n) :
                       LET d == analysisDetails[r][m]
                       IN /\ d.metadata.coordinates = ExpectedCoordinates(AcceptedOf(r)[n])
                          /\ Cardinality(ProgressOf(r, d.type))
                               + Cardinality(PersistenceErrorsOf(r, d.type)) = 1
                  /\ Cardinality(ObjectProgress(r, n)) <= 1
                  /\ \A p \in ObjectProgress(r, n) :
                       events[r][p].detail.coordinates = ExpectedCoordinates(AcceptedOf(r)[n])
             ELSE ObjectProgress(r, n) = {}

\* One bag: one progress event with the coordinates of its box.
C17_Witness ==
  /\ closed[1]
  /\ NoFallback(1)
  /\ Len(AcceptedOf(1)) = 1
  /\ ObjectIndices(1) = {1}
  /\ \E p \in ObjectProgress(1, 1) :
       events[1][p].detail.coordinates = [x |-> 10, y |-> 20, width |-> 100, height |-> 200]

(***************************************************************************)
(* C18: a request without a Bearer Authorization header is answered 401,   *)
(* one whose token resolves to no user 401, one whose analysis row does    *)
(* not exist 404, one of a user who is neither the owner nor an            *)
(* administrator 403; such a request emits no event, makes no inference    *)
(* call and writes nothing.                                                *)
(***************************************************************************)
Checked(r) == request[r] # NoRequest

MissingBearer(q) == q.header # "Bearer"
UnknownUser(q) == ~MissingBearer(q) /\ q.tokenUser = ""
MissingRow(q) == ~MissingBearer(q) /\ ~UnknownUser(q) /\ ~q.rowFound
NotAllowed(q, owner) ==
  /\ ~MissingBearer(q) /\ ~UnknownUser(q) /\ ~MissingRow(q)
  /\ q.tokenUser # owner
  /\ q.role # "admin"

Refused(q, owner) ==
  MissingBearer(q) \/ UnknownUser(q) \/ MissingRow(q) \/ NotAllowed(q, owner)

NothingDone(r) ==
  /\ events[r] = <<>>
  /\ ~closed[r]
  /\ yoloResults[r] = NoYolo
  /\ humanSegments[r] = <<>>
  /\ analysisDetails[r] = <<>>
  /\ aiSummary[r] = NoSummary
  /\ RowsOf(job[r]) = <<>>
  /\ StoredFor(job[r], <<0>>) = {}
  /\ storage = <<>>
  /\ AggregateUntouched(job[r])

C18_RefusedBeforeTheStream ==
  \A r \in RunIds :
    Checked(r) =>
      LET q == request[r]
          owner == analysis[job[r]].user_id
      IN /\ MissingBearer(q) => response[r] = 401
         /\ UnknownUser(q) => response[r] = 401
         /\ MissingRow(q) => response[r] = 404
         /\ NotAllowed(q, owner) => response[r] = 403
         /\ Refused(q, owner) => (pc[r] = "rejected" /\ NothingDone(r))
         /\ ~Refused(q, owner) => response[r] = 200

\* A user who is not an administrator asks for a row that does not exist.
C18_Witness ==
  /\ pc[1] = "rejected"
  /\ response[1] = 404
  /\ request[1].role = "user"
  /\ request[1].tokenUser = "other"
  /\ events[1] = <<>>

(***************************************************************************)
(* C19: when analyze has completed twice on one job, one run after the     *)
(* other, with the same external answers and no failure, the job has twice *)
(* the rows of one run: the second run inserts its own rows and neither    *)
(* deletes nor changes a row of the first.                                 *)
(***************************************************************************)
CompletedClean(r) ==
  /\ pc[r] = "done"
  /\ DetectorSucceeded(r)
  /\ CountType(r, "error") = 0
  /\ CountType(r, "yolo_error") = 0

SameAnswers(r, q) ==
  /\ yoloResults[r] = yoloResults[q]
  /\ analysisDetails[r] = analysisDetails[q]

ProgressIds(r) == {events[r][p].detail.id : p \in Positions(r, "progress")}

C19_RerunAddsItsOwnRows ==
  /\ [](\A r, q \in RunIds :
          (r # q /\ job[r] = job[q] /\ CompletedClean(r) /\ CompletedClean(q)
             /\ SameAnswers(r, q)) =>
            /\ Cardinality(ProgressIds(r)) = Len(analysisDetails[r])
            /\ Cardinality(ProgressIds(q)) = Len(analysisDetails[r])
            /\ ProgressIds(r) \cap ProgressIds(q) = {}
            /\ Len(RowsOf(job[r])) = 2 * Len(analysisDetails[r])
            /\ \A p \in Positions(r, "progress") :
                 \A n \in RowsWithId(events[r][p].detail.id) :
                   /\ analysis_detail[n].analysis_id = job[r]
                   /\ analysis_detail[n].ai_confidence = events[r][p].detail.confidence
                   /\ analysis_detail[n].ai_result_text.type = events[r][p].detail.type)
  /\ [][RowsAppendOnly /\ Len(analysis_detail') <= Len(analysis_detail) + 1]_vars

\* Both runs analysed one bag and each inserted its row.
C19_Witness ==
  /\ job[1] = job[2]
  /\ CompletedClean(1) /\ CompletedClean(2)
  /\ SameAnswers(1, 2)
  /\ Len(analysisDetails[1]) = 1
  /\ Len(RowsOf(job[1])) = 2

(***************************************************************************)
(* C20: in every interleaving of two runs on different jobs each run emits *)
(* the events and writes the rows it writes when alone: it inserts rows    *)
(* with its own job id only, updates its own analysis row only, and        *)
(* nothing it reads is written by the other run.                           *)
(***************************************************************************)
LocalOf(r) ==
  <<pc[r], request[r], cancelled[r], job[r], user[r], response[r], events[r], closed[r],
    yoloResults[r], validDetections[r], i[r], humanSegments[r], j[r], analysisDetails[r],
    k[r], imageUrl[r], aiSummary[r]>>

Acts(r) == LocalOf(r)' # LocalOf(r)

\* What a step of run r may change outside the run: rows and images appended
\* under its own job id, and the analysis row of its own job.
WritesOwnJobOnly(r) ==
  /\ RowsAppendOnly
  /\ \A n \in (Len(analysis_detail) + 1)..Len(analysis_detail') :
       analysis_detail'[n].analysis_id = job[r]
  /\ Len(storage') >= Len(storage)
  /\ \A n \in 1..Len(storage) : storage'[n] = storage[n]
  /\ \A n \in (Len(storage) + 1)..Len(storage') : storage'[n].analysisId = job[r]
  /\ \A a \in JobIds : a # job[r] => analysis'[a] = analysis[a]

StepOfOneRun ==
  /\ \A r, q \in RunIds : (Acts(r) /\ Acts(q)) => r = q
  /\ \A r \in RunIds : Acts(r) => WritesOwnJobOnly(r)
  /\ (\A r \in RunIds : ~Acts(r)) => UNCHANGED dbVars

RowIdsOf(a) == {analysis_detail[n].id : n \in {m \in 1..Len(analysis_detail) :
                                                analysis_detail[m].analysis_id = a}}

\* The rows and the aggregate of the job of run r are those of run r alone.
AsWhenAlone(r) ==
  /\ RowIdsOf(job[r]) = ProgressIds(r)
  /\ Len(RowsOf(job[r])) = CountType(r, "progress")
  /\ \A n \in 1..Len(RowsOf(job[r])) :
       LET row == RowsOf(job[r])[n]
           e == EventsOfType(r, "progress")[n]
       IN /\ row.id = e.detail.id
          /\ row.user_id = user[r]
          /\ row.ai_confidence = e.detail.confidence
          /\ row.ai_result_text.type = e.detail.type
  /\ IF CountType(r, "summary_complete") = 1
       THEN AggregatePair(job[r]) = PairOfRun(r)
       ELSE AggregateUntouched(job[r])

C20_RunsOnDifferentJobsAreIndependent ==
  /\ [](\A r, q \in RunIds :
          (r # q /\ pc[r] # "idle" /\ pc[q] # "idle" /\ job[r] # job[q]) => AsWhenAlone(r))
  /\ [][StepOfOneRun]_vars

\* Two runs on different jobs, both completed; the run that arrived second
\* inserted its row first.
C20_Witness ==
  /\ job[1] # job[2]
  /\ pc[1] = "done" /\ pc[2] = "done"
  /\ CountType(1, "progress") = 1 /\ CountType(2, "progress") = 1
  /\ CountType(1, "summary_complete") = 1 /\ CountType(2, "summary_complete") = 1
  /\ PairOfRun(1) # PairOfRun(2)
  /\ \E a \in ProgressIds(1), b \in ProgressIds(2) : b < a

(***************************************************************************)
(* C21: once the client has disconnected no further event is emitted on    *)
(* the stream, and the external call that was in flight at that moment     *)
(* still returns and has its effect: it is not aborted.                    *)
(***************************************************************************)
\* The run is waiting for a call or a timer.
Pending(r) ==
  pc[r] \in {"yolo", "detection", "segment", "part", "object", "fallback", "upload",
             "insert", "summary", "timer", "update"}

\* The return of what run r is waiting for.
CallReturns(r) ==
  \/ YoloReturns(r)
  \/ ProcessDetection(r)
  \/ SegmenterReturns(r)
  \/ AnalyzePart(r)
  \/ AnalyzeObject(r)
  \/ FallbackAnalysis(r)
  \/ Upload(r)
  \/ Insert(r)
  \/ SummaryProgress(r)
  \/ Summarize(r)
  \/ UpdateReturns(r)

C21_NoEventAfterDisconnect ==
  /\ [](\A r \in RunIds : (cancelled[r] /\ Pending(r)) => ENABLED CallReturns(r))
  /\ [][\A r \in RunIds :
          /\ cancelled[r] => (cancelled'[r] /\ events'[r] = events[r] /\ ~closed'[r])
          /\ (cancelled[r] /\ pc[r] = "insert" /\ pc'[r] # "insert") =>
               Len(analysis_detail') >= Len(analysis_detail)]_vars

\* The client left while the insert was in flight: the row is there, its
\* progress event was never enqueued.
C21_Witness ==
  /\ cancelled[1]
  /\ pc[1] = "failed"
  /\ Len(RowsOf(job[1])) = 1
  /\ CountType(1, "progress") = 0
  /\ CountType(1, "error") = 0
  /\ LastType(1) = "ai_analysis_step"

(***************************************************************************)
(* C22: the accepted detections are processed one at a time in the order   *)
(* of the detector: the k-th processing_detection event has progress = k   *)
(* and is about the k-th accepted detection, and no call for detection     *)
(* k + 1 is issued before the calls for detection k have returned.         *)
(***************************************************************************)
\* The detection an event of the detection phase belongs to, counted from 1.
DetectionOf(e) ==
  IF e.type = "processing_detection" THEN e.progress ELSE e.segmentInfo.detectionIndex + 1

IsDetectionPhaseEvent(e) ==
  \/ e.type = "processing_detection"
  \/ e.type = "ai_analysis_step" /\ ~e.segmentInfo.fallbackMode

DetectionPhaseEvents(r) == SelectSeq(events[r], IsDetectionPhaseEvent)

\* The detection whose calls run r is waiting for, 0 outside the loop.
DetectionInProgress(r) ==
  IF pc[r] \in {"segment", "part", "object"} THEN i[r] + 1 ELSE 0

C22_DetectionsInDetectorOrder ==
  /\ [](\A r \in RunIds :
          LET processing == EventsOfType(r, "processing_detection")
          IN /\ Len(processing) <= Len(AcceptedOf(r))
             /\ \A n \in 1..Len(processing) :
                  /\ processing[n].progress = n
                  /\ processing[n].detectionType = AcceptedOf(r)[n].type
                  /\ processing[n].confidence = AcceptedOf(r)[n].confidence
                  /\ processing[n].total = Len(AcceptedOf(r))
             /\ LET phase == DetectionPhaseEvents(r)
                IN /\ \A n \in 1..Len(phase) :
                        IF phase[n].type = "processing_detection"
                          THEN n = 1 \/ DetectionOf(phase[n - 1]) = phase[n].progress - 1
                          ELSE n > 1 /\ DetectionOf(phase[n - 1]) = DetectionOf(phase[n])
                   /\ DetectionInProgress(r) # 0 =>
                        /\ Len(processing) = DetectionInProgress(r)
                        /\ DetectionOf(phase[Len(phase)]) = DetectionInProgress(r))
  /\ [][\A r \in RunIds : i'[r] = i[r] \/ i'[r] = i[r] + 1]_vars

\* A person and then a bag, both analysed.
C22_Witness ==
  /\ closed[1]
  /\ NoFallback(1)
  /\ Len(AcceptedOf(1)) = 2
  /\ AcceptedOf(1)[1].type = "person" /\ AcceptedOf(1)[2].type = "bag"
  /\ CountType(1, "processing_detection") = 2
  /\ \E q \in Positions(1, "ai_analysis_step") : DetectionOf(events[1][q]) = 2

(***************************************************************************)
(* The external clients on their own: one run with one accepted detection, *)
(* in which the segmenter and the Segment Analysis Unit answer in every    *)
(* way and the answer is kept in answers.                                  *)
(***************************************************************************)
UnitRequests == {Req("Bearer", "owner", TRUE, "user")}

UnitDetectorResponses ==
  [kind : {"ok"},
   detections : {<<Detection(ConfidenceThreshold, "person", TRUE)>>,
                 <<Detection(ConfidenceThreshold, "bag", TRUE)>>}]

RequestUnit(r) == RequestFrom(r, UnitRequests)

YoloReturnsUnit(r) == YoloReturnsFrom(r, UnitDetectorResponses)

SegmenterReturnsTraced(r) ==
  /\ pc[r] = "segment"
  /\ \E resp \in SegmenterResponses :
       /\ SegmenterAnswers(r, resp)
       /\ answers' = [answers EXCEPT ![r] = [of |-> "segmenter", resp |-> resp]]

AnalyzeObjectTraced(r) ==
  /\ pc[r] = "object"
  /\ \E u \in UnitInputsAll :
       /\ UnitAnswersObject(r, u)
       /\ answers' = [answers EXCEPT ![r] = [of |-> "unit", u |-> u]]

NextUnits ==
  \E r \in RunIds :
    \/ RequestUnit(r)
    \/ YoloReturnsUnit(r)
    \/ ProcessDetection(r)
    \/ SegmenterReturnsTraced(r)
    \/ AnalyzeObjectTraced(r)

SpecUnits == Init /\ [][NextUnits]_vars

\* The segmenter has answered the call made for the run's person detection.
SegmenterAnswered(r) == answers[r].of = "segmenter"

\* The crop and the box handed to segmentHumanImage in run r.
ParentBox(r) == validDetections[r][1].box

WholeCropSubRegion(r) ==
  [segment |-> cropImageByBox(ParentBox(r)),
   coordinates |-> [x |-> ParentBox(r)[1], y |-> ParentBox(r)[2],
                    width |-> ParentBox(r)[3] - ParentBox(r)[1],
                    height |-> ParentBox(r)[4] - ParentBox(r)[2]]]

NothingSurvives(resp) == SelectSeq(resp.items, KeepItem) = <<>>

\* C23: segmentHumanImage returns at least one sub-region for every answer of
\* the segmenter; when the call fails or no item survives the filter it
\* returns exactly one sub-region, the whole input crop with the coordinates
\* of the parent box (x1, y1, x2-x1, y2-y1); it returns (the run goes on to
\* analyse the parts) instead of throwing.
C23_SegmenterAlwaysReturnsSubRegion ==
  \A r \in RunIds :
    SegmenterAnswered(r) =>
      /\ Len(humanSegments[r]) >= 1
      /\ pc[r] = "part"
      /\ (~answers[r].resp.ok \/ NothingSurvives(answers[r].resp)) =>
           humanSegments[r] = <<WholeCropSubRegion(r)>>

C23_Witness ==
  /\ SegmenterAnswered(1)
  /\ answers[1].resp.ok
  /\ Len(answers[1].resp.items) = MaxItems
  /\ NothingSurvives(answers[1].resp)
  /\ humanSegments[1] = <<WholeCropSubRegion(1)>>

\* C24: when the segmenter service fails, the fallback sub-region returned by
\* segmentHumanImage can be told apart from the sub-regions of every
\* successful segmentation: no answer of a service that responded yields the
\* same list of sub-regions.
C24_FailureFallbackIsTagged ==
  \A r \in RunIds :
    (SegmenterAnswered(r) /\ ~answers[r].resp.ok) =>
      \A resp \in SegmenterResponses :
        resp.ok =>
          segmentHumanImage(cropImageByBox(ParentBox(r)), ParentBox(r), resp)
            # humanSegments[r]

\* The sub-regions of run r that come from a detected item (the combined mask).
ItemSubRegions(r) ==
  {n \in 1..Len(humanSegments[r]) : humanSegments[r][n].segment.kind = "mask"}

\* not background, and coverage at least the 1% minimum
AtLeastMinimum(item) == item.label_id # 0 /\ item.percentage >= MinCoverage

\* C25: for every answer of a responding segmenter, segmentHumanImage keeps a
\* detected item exactly when it is not background and its coverage is at
\* least the 1% minimum: the sub-regions that come from items are as many as
\* the items with a non-background label and a coverage of 1% or more.
C25_KeepsItemsAtLeastOnePercent ==
  \A r \in RunIds :
    (SegmenterAnswered(r) /\ answers[r].resp.ok /\ answers[r].resp.mask) =>
      Cardinality(ItemSubRegions(r))
        = Len(SelectSeq(answers[r].resp.items, AtLeastMinimum))

\* The Segment Analysis Unit has returned for the run's detection.
UnitAnswered(r) == answers[r].of = "unit"

\* The result the unit returned, as POST keeps it in the detail's metadata.
UnitResult(r) == analysisDetails[r][1].metadata.aiAnalysisResult

StepsNamed(r, name) ==
  SelectSeq(events[r], LAMBDA e : e.type = "ai_analysis_step" /\ e.step = name)

\* C26: processImageAnalysisStreaming returns a result (POST builds the
\* detail from it, the run neither fails nor falls back) for every
\* combination of failures of the brand identifier, the image conversion, the
\* scorer and the translator: a failed brand identification gives brand
\* confidence 0 and the name "Unknown Brand" in the call of the scorer, a
\* failed scorer gives authentic_probability 0 with an entry in red_flags,
\* and a failed translator leaves the confidence as it is with a working one.
C26_UnitAlwaysReturnsResult ==
  \A r \in RunIds :
    UnitAnswered(r) =>
      LET u == answers[r].u
          announced == StepsNamed(r, "fake_goods_analysis")
      IN /\ pc[r] \notin {"failed", "fallback"}
         /\ Len(analysisDetails[r]) = 1
         /\ ~u.luxury.ok =>
              /\ UnitResult(r).luxury_confidence = 0
              /\ u.convOk => Len(announced) = 1
              /\ \A n \in 1..Len(announced) : announced[n].message = "Unknown Brand"
         /\ ~u.scorer.ok =>
              /\ UnitResult(r).authentic_probability = 0
              /\ UnitResult(r).red_flags >= 1
         /\ ~u.translOk =>
              analysisDetails[r][1].confidence
                = processImageAnalysisStreaming([u EXCEPT !.translOk = TRUE]).ai_confidence

C26_Witness ==
  /\ UnitAnswered(1)
  /\ ~answers[1].u.luxury.ok
  /\ answers[1].u.convOk
  /\ ~answers[1].u.scorer.ok
  /\ ~answers[1].u.translOk
  /\ Len(analysisDetails[1]) = 1
  /\ UnitResult(1).authentic_probability = 0

NonEmptyChunks(chunks) == SelectSeq(chunks, LAMBDA c : c # "")

StreamedMessages(r) ==
  [n \in 1..Len(StepsNamed(r, "fake_goods_streaming")) |->
     StepsNamed(r, "fake_goods_streaming")[n].message]

\* C27: for every sequence of content chunks of the scorer stream and every
\* way its body is split across reads, the ai_analysis_step events with step
\* fake_goods_streaming carry the non-empty chunks, each exactly once, with
\* its text unchanged and in the order of the stream.
C27_ChunksForwardedOnceInOrder ==
  \A r \in RunIds :
    (UnitAnswered(r) /\ answers[r].u.convOk) =>
      StreamedMessages(r) = NonEmptyChunks(answers[r].u.scorer.chunks)

C27_Witness ==
  /\ UnitAnswered(1)
  /\ answers[1].u.convOk
  /\ answers[1].u.scorer.chunks = <<"genuine", "", "authentic">>
  /\ Cardinality(answers[1].u.scorer.cuts) = MaxReads - 1
  /\ 1 \in answers[1].u.scorer.cuts
  /\ StreamedMessages(1) = <<"genuine", "authentic">>

\* The run has entered the whole-image fallback.
FallbackEntered(r) == CountType(r, "fallback_analysis") > 0

\* An error event of run r that reports a failure of the upload service or of
\* the row insert.
ServiceFailures(r) ==
  {n \in Positions(r, "error") :
     \/ events[r][n].message = "Failed to save analysis"
     \/ events[r][n].message = "Failed to save image"
          /\ events[r][n].error = "Failed to upload image"}

\* C28: whenever the run has entered the whole-image fallback, has reached
\* summary_progress, and neither the upload service nor the row insert has
\* failed, the whole source image is persisted as one sub-region: the run has
\* created exactly one AnalysisDetail row and emitted exactly one progress
\* event, before summary_progress.
C28_FallbackImagePersisted ==
  \A r \in RunIds :
    (FallbackEntered(r) /\ CountType(r, "summary_progress") > 0 /\ ServiceFailures(r) = {}) =>
      /\ Cardinality(RowsOfType(job[r], FullImageType)) = 1
      /\ CountType(r, "progress") = 1
      /\ \A n \in Positions(r, "progress") : \A m \in Positions(r, "summary_progress") : n < m

\* The invocations of the Segment Analysis Unit in run r: each begins with
\* the step luxury_analysis.
UnitInvocations(r) == Len(StepsNamed(r, "luxury_analysis"))

\* The sub-regions the run carries into persistence: every analysed one, or
\* the whole image alone when the run fell back.
CarriedSubRegions(r) == IF FallbackEntered(r) THEN 1 ELSE UnitInvocations(r)

Completed(r) == CountType(r, "complete") > 0

PersistenceFailures(r) ==
  {n \in Positions(r, "error") :
     events[r][n].message \in {"Failed to save image", "Failed to save analysis"}}

\* total, step and skipped steps of the progress events, for a run whose
\* complete event announces total sub-regions
ProgressNumbering(r, total) ==
  /\ \A n \in Positions(r, "complete") : events[r][n].totalDetails = total
  /\ \A n \in Positions(r, "progress") :
       /\ events[r][n].total = total
       /\ events[r][n].step \in 1..Len(analysisDetails[r])
       /\ analysisDetails[r][events[r][n].step].type = events[r][n].detail.type
  /\ \A n, m \in Positions(r, "progress") : n < m => events[r][n].step < events[r][m].step
  /\ \A n \in PersistenceFailures(r) :
       \A m \in Positions(r, "progress") :
         analysisDetails[r][events[r][m].step].type # events[r][n].detailType
  /\ PersistenceFailures(r) # {} => total > CountType(r, "progress")

\* C29 as written: in every run that emits complete, totalDetails and the
\* total of every progress event equal the number of sub-regions analysed
\* in the run, and step is the position among them.
C29_TotalIsAnalysedSubRegions ==
  \A r \in RunIds : Completed(r) => ProgressNumbering(r, UnitInvocations(r))

\* C29: in every run that emits complete, totalDetails and the total of every
\* progress event equal the number of analysed sub-regions carried into
\* persistence (all of them without fallback, the whole image alone after a
\* fallback); step is the 1-based position of the sub-region among those,
\* strictly increasing, the step of a sub-region whose persistence failed
\* being skipped, so totalDetails exceeds the number of progress events
\* whenever a persistence failure occurred.
C29_TotalIsCarriedSubRegions ==
  \A r \in RunIds : Completed(r) => ProgressNumbering(r, CarriedSubRegions(r))

C29_Witness ==
  /\ Completed(1)
  /\ ~FallbackEntered(1)
  /\ UnitInvocations(1) = 2
  /\ Cardinality(PersistenceFailures(1)) = 1
  /\ \E n \in Positions(1, "progress") : events[1][n].step = 2 /\ events[1][n].total = 2

\* The run is in its detection phase (the try block around the detector
\* call and the loop over the accepted detections, and its catch).
InDetectionPhase(r) == pc[r] \in {"yolo", "detection", "segment", "part", "object", "fallback"}

NothingPersisted(r) ==
  /\ \A n \in 1..Len(storage) : storage[n].analysisId # job[r]
  /\ RowsOf(job[r]) = <<>>
  /\ CountType(r, "progress") = 0
  /\ PersistenceFailures(r) = {}

\* C30: if an exception is thrown inside the detection phase after k >= 0
\* accepted detections have been analysed, the run emits yolo_error and then
\* fallback_analysis, once each; from the end of the fallback analysis on it
\* carries exactly one detail, the whole-image one, into persistence and
\* summarization (the k results are gone: totalDetails is 1 and the summary
\* confidence is that detail's); and nothing is uploaded, inserted or
\* reported as persisted while the run is in its detection phase.
C30_ExceptionDiscardsResults ==
  \A r \in RunIds :
    /\ InDetectionPhase(r) => NothingPersisted(r)
    /\ CountType(r, "yolo_error") > 0 =>
         /\ CountType(r, "yolo_error") = 1
         /\ CountType(r, "fallback_analysis") = 1
         /\ \A n \in Positions(r, "yolo_error") : (n + 1) \in Positions(r, "fallback_analysis")
         /\ \A n \in Positions(r, "progress") \cup PersistenceFailures(r) :
              \A m \in Positions(r, "fallback_analysis") : m < n
         /\ ~InDetectionPhase(r) =>
              /\ Len(analysisDetails[r]) = 1
              /\ analysisDetails[r][1].type = FullImageType
              /\ analysisDetails[r][1].metadata.fallbackMode
         /\ \A n \in Positions(r, "complete") : events[r][n].totalDetails = 1
         /\ aiSummary[r] # NoSummary =>
              aiSummary[r].confidence = [num |-> analysisDetails[r][1].confidence, den |-> 1]

C30_Witness ==
  /\ FallbackEntered(1)
  /\ UnitInvocations(1) = 2
  /\ CountType(1, "processing_detection") = 2
  /\ Completed(1)
  /\ Len(analysisDetails[1]) = 1

====
